---- MODULE Spec2Model ----
(***************************************************************************)
(* Verification model of goth-datastore: the lazy connection lifecycle of  *)
(* KKDatabaseOp (src/database.go:415-614, the mutex-guarded operator), the *)
(* session lifecycle of CassandraOp and its column-metadata scan           *)
(* (src/unnamed/part_009), and RedisOp.Pipeline and RedisOp._Do with the   *)
(* response envelope they build (src/unnamed/part_000).                    *)
(***************************************************************************)
EXTENDS Integers, Sequences, FiniteSets, TLC

(***************************************************************************)
(* Bounds of the model.                                                    *)
(***************************************************************************)
\* goroutines calling one KKDatabaseOp concurrently
NumProcs == 2
\* DB()/Close() calls made on the operator in total
MaxCalls == 3

\* gorm.Open invocations are counted up to this many ("this many or more")
ConnectsCap == 2
\* goroutines calling one CassandraOp concurrently
NumCallers == 2
\* Session()/Close()/Exec()/session.Close() calls made on the CassandraOp in total
MaxSessOps == 3
\* tables of the keyspace in system_schema.columns
NumTables == 2
\* column names a table of the keyspace can have
NumColumns == 2

\* commands in one Pipeline call, at most
MaxCmds == 3
\* largest MaxRetryAttempt an operator is configured with
MaxRetryBound == 3
\* bytes in a bulk-string reply, at most
MaxBytes == 2
\* profile names asked of the registry
NumNames == 2
\* KKDB calls made in total
MaxRegCalls == 3
\* responses in a registered sequence, at most
MaxSeqLen == 2
\* commands sent to a MockRedisOp
MaxMockCalls == 4
\* SetSequentialResponses calls on a MockRedisOp
MaxMockSets == 2
\* Pipeline and _Do calls made on the RedisOp
MaxPipelines == 2

Procs == 1..NumProcs
Callers == 1..NumCallers
Tables == 1..NumTables
Columns == 1..NumColumns

(***************************************************************************)
(* Program constants.                                                      *)
(***************************************************************************)
\* database.go:595  if retry >= 5 { ... return nil }
RetryCeiling == 5

\* nil pointer (*gorm.DB, *gocql.Session, *RedisResponse)
Nil == 0

\* meta.Adapter values: the one supported driver, another name, the empty string
Adapters == {"mysql", "postgres", ""}

\* behaviour of gorm.Open for this operator's endpoint
DialModes == {"ok", "fail", "flaky"}

VARIABLES
    \* ---- KKDatabaseOp ----
    adapter,                  \* ke.meta.Adapter
    KKDBParamMaxIdleConn,     \* ke.ConnParams.KKDBParamMaxIdleConn
    KKDBParamConnMaxLifetime, \* ke.ConnParams.KKDBParamConnMaxLifetime
    dial,                     \* how gorm.Open behaves: always ok, always fails, either
    db,                       \* ke.db, the cached *gorm.DB (Nil or a resource id)
    opLock,                   \* ke.opLock: Nil or the goroutine holding it
    dbpc,                     \* position of each goroutine inside DB()
    retry,                    \* newDBConn's retry parameter of each goroutine
    conn,                     \* newDBConn's local db / its return value
    res,                      \* what the goroutine's last DB() returned (resource behind the handle)
    lastOp,                   \* last call the goroutine completed
    calls,                    \* calls started on this operator
    attempts,                 \* gorm.Open invocations of the goroutine's current DB() call
    sleeps,                   \* time.Sleep invocations of the goroutine's current DB() call
    connects,                 \* gorm.Open invocations on this operator in total, up to ConnectsCap
    nextRes,                  \* next fresh resource id
    configured,               \* resources whose pool-sizing parameters have been set
    dbClosed,                 \* resources on which Close() was called
    \* ---- CassandraOp ----
    createMode,               \* how cluster.CreateSession behaves: always ok, always fails, either
    session,                  \* c.session, the cached *gocql.Session (Nil or a session id)
    cassLock,                 \* c.opLock: Nil or the goroutine holding it
    sessClosed,               \* sessions for which Closed() reports true
    nextSess,                 \* next fresh session id
    columnsMetadata,          \* c.columnsMetadata: the tables that have an entry
    columnMetaOnce,           \* c.columnMetaOnce: the sync.Once the field points to
    nextOnce,                 \* next fresh sync.Once id
    onceDone,                 \* sync.Once objects whose done flag is set
    onceHeld,                 \* sync.Once objects whose mutex is held
    caller,                   \* per goroutine: position and locals inside Session/Close/Exec
    sessOps,                  \* calls started on this operator
    sessCreates,              \* CreateSession invocations made from Session()
    extClosed,                \* sessions closed directly by a holder, not by the operator
    metaRuns,                 \* columnMetadataInitialize runs completed since the cached session was last closed
    \* ---- RedisOp.Pipeline ----
    cmds,                     \* the cmds argument of the call
    ppc,                      \* position inside Pipeline
    idx,                      \* the loop variable i (1-based here, 0-based in Go)
    responses,                \* the responses slice
    sent,                     \* the sent slice
    wire,                     \* commands the connection accepted through Send, in order
    replies,                  \* replies the server queued for the flushed commands
    sendCalls,                \* conn.Send invocations of the call
    flushCalls,               \* conn.Flush invocations of the call
    recvCalls,                \* conn.Receive invocations of the call
    connGets,                 \* connections taken from the pool by the call
    connCloses,               \* conn.Close invocations of the call
    outcome,                  \* how the last call ended
    pipelines,                \* Pipeline and _Do calls started
    \* ---- RedisOp._Do ----
    doReply,                  \* what conn.Do returned: (r, err)
    doResponse,               \* the *RedisResponse _Do returns
    doCalls,                  \* conn.Do invocations of the call
    \* ---- CassandraOp.columnMetadataInitialize ----
    catalog,                  \* the rows the query's iterator yields, in order
    cursor,                   \* rows iter.Scan has delivered
    mpc,                      \* position inside columnMetadataInitialize
    columnMetadata,           \* the local accumulator struct: tableName and its Columns map
    mapHeap,                  \* the Columns maps allocated so far, by reference
    metaEntries,              \* c.columnsMetadata as this scan writes it: table -> struct
    \* ---- value methods: retry policy, table metadata, response envelopes ----
    MaxRetryAttempt,          \* c.MaxRetryAttempt of the CassandraOp used as retry policy
    tableMetadata,            \* a CassandraColumnMetadata value: its Columns map
    lastCall,                 \* the last method call made: receiver, argument, result, pause
    entity,                   \* a RedisResponseEntity: its data field
    \* ---- the registry KKDB (KKREDIS and KKCassandra have the same shape) ----
    KKDatabaseDebug,          \* the package variable KKDatabaseDebug
    debugEnv,                 \* _IsKKDatastoreDebug(): KKDATASTORE_DEBUG is "TRUE"
    debugOnceDone,            \* _KKDatabaseDebug (sync.Once) has run
    KKDatabaseProfiles,       \* the sync.Map: name -> *KKDatabase (Nil when absent)
    KKDatabaseLocker,         \* Nil or the goroutine holding the mutex
    secretProfiles,           \* names kksecret.DatabaseProfile knows
    regpc,                    \* position of each goroutine inside KKDB
    regName,                  \* dbname of the goroutine's current or last call
    regRet,                   \* what the goroutine's last call returned
    regDone,                  \* the goroutine has a completed call
    regCalls,                 \* KKDB calls started
    nextInstance,             \* next *KKDatabase to be allocated
    instancesOf,              \* name -> the instances created for it so far
    \* ---- a MockRedisOp ----
    sequences,                \* m.sequences: "GET:<pattern>" -> the registered responses
    sequenceIndexes,          \* m.sequenceIndexes: "GET:<pattern>" -> current index (0-based)
    served,                   \* pattern -> calls answered from its sequence since it was set
    mockResponse,             \* what the last findResponse returned, and from which sequence
    mockCalls,                \* commands sent so far
    mockSets                  \* SetSequentialResponses calls so far

dbVars == <<adapter, KKDBParamMaxIdleConn, KKDBParamConnMaxLifetime, dial, db, opLock,
            dbpc, retry, conn, res, lastOp, calls, attempts, sleeps, connects,
            nextRes, configured, dbClosed>>

cassVars == <<createMode, session, cassLock, sessClosed, nextSess, columnsMetadata,
              columnMetaOnce, nextOnce, onceDone, onceHeld, caller, sessOps, sessCreates,
              extClosed, metaRuns>>

doVars == <<doReply, doResponse, doCalls>>

pipeVars == <<cmds, ppc, idx, responses, sent, wire, replies, sendCalls, flushCalls,
              recvCalls, connGets, connCloses, outcome, pipelines, doVars>>

metaVars == <<catalog, cursor, mpc, columnMetadata, mapHeap, metaEntries>>

valueVars == <<MaxRetryAttempt, tableMetadata, lastCall, entity>>

regVars == <<KKDatabaseDebug, debugEnv, debugOnceDone, KKDatabaseProfiles, KKDatabaseLocker,
             secretProfiles, regpc, regName, regRet, regDone, regCalls, nextInstance,
             instancesOf>>

mockVars == <<sequences, sequenceIndexes, served, mockResponse, mockCalls, mockSets>>

vars == <<dbVars, cassVars, pipeVars, metaVars, valueVars, regVars, mockVars>>

otherThanDB == <<cassVars, pipeVars, metaVars, valueVars, regVars, mockVars>>
otherThanCassandra == <<dbVars, pipeVars, metaVars, valueVars, regVars, mockVars>>
otherThanPipeline == <<dbVars, cassVars, metaVars, valueVars, regVars, mockVars>>
otherThanMetadata == <<dbVars, cassVars, pipeVars, valueVars, regVars, mockVars>>
otherThanValues == <<dbVars, cassVars, pipeVars, metaVars, regVars, mockVars>>
otherThanRegistry == <<dbVars, cassVars, pipeVars, metaVars, valueVars, mockVars>>
otherThanMock == <<dbVars, cassVars, pipeVars, metaVars, valueVars, regVars>>

(***************************************************************************)
(* KKDatabaseOp.DB(), newDBConn and KKDatabaseOp.Close().                  *)
(***************************************************************************)

\* database.go:440-446  pooling is bypassed when a bound is non-positive
PoolingDisabledIdleOnly == KKDBParamMaxIdleConn <= 0
PoolingDisabled == KKDBParamConnMaxLifetime <= 0 \/ KKDBParamMaxIdleConn <= 0

\* database.go:448 and :451  "ke.db == nil"
NeedConstructAlways(cached) == TRUE
NeedConstruct(cached) == cached = Nil

\* database.go:441,445,452  DB() starts newDBConn with retry 0
DBStartRetryExhausted == RetryCeiling
DBStartRetry == 0

\* database.go:560-589  switch op.meta.Adapter { case "mysql": ... default: return nil }
AdapterSupportedNonEmpty(a) == a /= ""
AdapterSupported(a) == a = "mysql"

\* database.go:595  retry >= 5
RetryExhaustedOffByOne(r) == r > RetryCeiling
RetryExhausted(r) == r >= RetryCeiling

\* outcomes gorm.Open can have under the operator's dial behaviour
DialOutcomes == IF dial = "ok" THEN {TRUE}
                ELSE IF dial = "fail" THEN {FALSE}
                ELSE {TRUE, FALSE}

DBInit ==
    /\ adapter \in Adapters
    /\ KKDBParamMaxIdleConn \in {0, 1}
    /\ KKDBParamConnMaxLifetime \in {0, 1}
    /\ dial \in DialModes
    /\ db = Nil
    /\ opLock = Nil
    /\ dbpc = [p \in Procs |-> "idle"]
    /\ retry = [p \in Procs |-> 0]
    /\ conn = [p \in Procs |-> Nil]
    /\ res = [p \in Procs |-> Nil]
    /\ lastOp = [p \in Procs |-> "none"]
    /\ calls = 0
    /\ attempts = [p \in Procs |-> 0]
    /\ sleeps = [p \in Procs |-> 0]
    /\ connects = 0
    /\ nextRes = 1
    /\ configured = {}
    /\ dbClosed = {}

\* database.go:439-446  entry of DB(): the two escape-hatch tests
DBEnter(p) ==
    /\ dbpc[p] = "idle"
    /\ calls < MaxCalls
    /\ calls' = calls + 1
    /\ attempts' = [attempts EXCEPT ![p] = 0]
    /\ sleeps' = [sleeps EXCEPT ![p] = 0]
    /\ conn' = [conn EXCEPT ![p] = Nil]
    /\ retry' = [retry EXCEPT ![p] = DBStartRetry]
    /\ dbpc' = [dbpc EXCEPT ![p] = IF PoolingDisabled THEN "open_direct" ELSE "check"]
    /\ UNCHANGED <<adapter, KKDBParamMaxIdleConn, KKDBParamConnMaxLifetime, dial, db,
                   opLock, res, lastOp, connects, nextRes, configured, dbClosed>>
    /\ UNCHANGED otherThanDB

\* database.go:448  unsynchronised first test of ke.db
DBFastCheck(p) ==
    /\ dbpc[p] = "check"
    /\ dbpc' = [dbpc EXCEPT ![p] = IF db = Nil THEN "lock" ELSE "new"]
    /\ UNCHANGED <<adapter, KKDBParamMaxIdleConn, KKDBParamConnMaxLifetime, dial, db,
                   opLock, retry, conn, res, lastOp, calls, attempts, sleeps,
                   connects, nextRes, configured, dbClosed>>
    /\ UNCHANGED otherThanDB

\* database.go:449  sync.Mutex.Lock() proceeds only while no goroutine holds the mutex
MutexFreeAlways(holder) == TRUE
MutexFree(holder) == holder = Nil

\* database.go:449-450  ke.opLock.Lock(); defer ke.opLock.Unlock()
DBLock(p) ==
    /\ dbpc[p] = "lock"
    /\ MutexFree(opLock)
    /\ opLock' = p
    /\ dbpc' = [dbpc EXCEPT ![p] = "recheck"]
    /\ UNCHANGED <<adapter, KKDBParamMaxIdleConn, KKDBParamConnMaxLifetime, dial, db,
                   retry, conn, res, lastOp, calls, attempts, sleeps,
                   connects, nextRes, configured, dbClosed>>
    /\ UNCHANGED otherThanDB

\* database.go:451  second test of ke.db, under the lock
DBRecheck(p) ==
    /\ dbpc[p] = "recheck"
    /\ dbpc' = [dbpc EXCEPT ![p] = IF NeedConstruct(db) THEN "open_locked" ELSE "new"]
    /\ retry' = [retry EXCEPT ![p] = DBStartRetry]
    /\ UNCHANGED <<adapter, KKDBParamMaxIdleConn, KKDBParamConnMaxLifetime, dial, db,
                   opLock, conn, res, lastOp, calls, attempts, sleeps,
                   connects, nextRes, configured, dbClosed>>
    /\ UNCHANGED otherThanDB

InNewDBConn(p) == dbpc[p] \in {"open_direct", "open_locked"}

\* where newDBConn returns to: DB():441/445 (direct) or DB():452 (locked)
ReturnSite(p) == IF dbpc[p] \in {"open_direct", "conf_direct"}
                 THEN "ret_direct" ELSE "ret_locked"

\* database.go:586-588  default: "adapter not support"; return nil
NewDBConnUnsupported(p) ==
    /\ InNewDBConn(p)
    /\ ~AdapterSupported(adapter)
    /\ conn' = [conn EXCEPT ![p] = Nil]
    /\ dbpc' = [dbpc EXCEPT ![p] = ReturnSite(p)]
    /\ UNCHANGED <<adapter, KKDBParamMaxIdleConn, KKDBParamConnMaxLifetime, dial, db,
                   opLock, retry, res, lastOp, calls, attempts, sleeps,
                   connects, nextRes, configured, dbClosed>>
    /\ UNCHANGED otherThanDB

\* database.go:591,605-613  with err == nil newDBConn goes on to set the pool parameters
AfterOpenOkUnconfigured(at) == IF at = "open_direct" THEN "ret_direct" ELSE "ret_locked"
AfterOpenOk(at) == IF at = "open_direct" THEN "conf_direct" ELSE "conf_locked"

\* database.go:561-585  gorm.Open succeeds: err == nil, db is a new resource
NewDBConnOpenOk(p) ==
    /\ InNewDBConn(p)
    /\ AdapterSupported(adapter)
    /\ TRUE \in DialOutcomes
    /\ attempts' = [attempts EXCEPT ![p] = @ + 1]
    /\ connects' = IF connects < ConnectsCap THEN connects + 1 ELSE connects
    /\ conn' = [conn EXCEPT ![p] = nextRes]
    /\ nextRes' = nextRes + 1
    /\ retry' = [retry EXCEPT ![p] = 0]
    /\ dbpc' = [dbpc EXCEPT ![p] = AfterOpenOk(dbpc[p])]
    /\ UNCHANGED <<adapter, KKDBParamMaxIdleConn, KKDBParamConnMaxLifetime, dial, db,
                   opLock, res, lastOp, calls, sleeps, configured, dbClosed>>
    /\ UNCHANGED otherThanDB

\* database.go:591-603  gorm.Open fails: retry += 1; give up at the ceiling, otherwise
\* time.Sleep(time.Second * 1) and return newDBConn(op, retry)
NewDBConnOpenErr(p) ==
    /\ InNewDBConn(p)
    /\ AdapterSupported(adapter)
    /\ FALSE \in DialOutcomes
    /\ attempts' = [attempts EXCEPT ![p] = @ + 1]
    /\ connects' = IF connects < ConnectsCap THEN connects + 1 ELSE connects
    /\ IF RetryExhausted(retry[p] + 1)
       THEN /\ retry' = [retry EXCEPT ![p] = 0]
            /\ conn' = [conn EXCEPT ![p] = Nil]
            /\ dbpc' = [dbpc EXCEPT ![p] = ReturnSite(p)]
            /\ UNCHANGED sleeps
       ELSE /\ retry' = [retry EXCEPT ![p] = @ + 1]
            /\ sleeps' = [sleeps EXCEPT ![p] = @ + 1]
            /\ UNCHANGED <<conn, dbpc>>
    /\ UNCHANGED <<adapter, KKDBParamMaxIdleConn, KKDBParamConnMaxLifetime, dial, db,
                   opLock, res, lastOp, calls, nextRes, configured, dbClosed>>
    /\ UNCHANGED otherThanDB

\* database.go:605-613  SetMaxOpenConns, SetMaxIdleConns, SetConnMaxLifetime, SetConnMaxIdleTime; return db
NewDBConnConfigure(p) ==
    /\ dbpc[p] \in {"conf_direct", "conf_locked"}
    /\ configured' = configured \cup {conn[p]}
    /\ dbpc' = [dbpc EXCEPT ![p] = ReturnSite(p)]
    /\ UNCHANGED <<adapter, KKDBParamMaxIdleConn, KKDBParamConnMaxLifetime, dial, db,
                   opLock, retry, conn, res, lastOp, calls, attempts, sleeps,
                   connects, nextRes, dbClosed>>
    /\ UNCHANGED otherThanDB

\* database.go:441,445  return newDBConn(ke, 0)
DBReturnDirect(p) ==
    /\ dbpc[p] = "ret_direct"
    /\ res' = [res EXCEPT ![p] = conn[p]]
    /\ lastOp' = [lastOp EXCEPT ![p] = "DB"]
    /\ dbpc' = [dbpc EXCEPT ![p] = "idle"]
    /\ conn' = [conn EXCEPT ![p] = Nil]
    /\ UNCHANGED <<adapter, KKDBParamMaxIdleConn, KKDBParamConnMaxLifetime, dial, db,
                   opLock, retry, calls, attempts, sleeps,
                   connects, nextRes, configured, dbClosed>>
    /\ UNCHANGED otherThanDB

\* database.go:452-454  if ke.db = newDBConn(ke, 0); ke.db == nil { return nil }  (deferred Unlock)
DBAssign(p) ==
    /\ dbpc[p] = "ret_locked"
    /\ db' = conn[p]
    /\ conn' = [conn EXCEPT ![p] = Nil]
    /\ IF conn[p] = Nil
       THEN /\ res' = [res EXCEPT ![p] = Nil]
            /\ lastOp' = [lastOp EXCEPT ![p] = "DB"]
            /\ opLock' = Nil
            /\ dbpc' = [dbpc EXCEPT ![p] = "idle"]
       ELSE /\ dbpc' = [dbpc EXCEPT ![p] = "new"]
            /\ UNCHANGED <<res, lastOp, opLock>>
    /\ UNCHANGED <<adapter, KKDBParamMaxIdleConn, KKDBParamConnMaxLifetime, dial,
                   retry, calls, attempts, sleeps,
                   connects, nextRes, configured, dbClosed>>
    /\ UNCHANGED otherThanDB

\* database.go:458-459  db := ke.db.New(); return db  (deferred Unlock when the lock was taken)
DBNew(p) ==
    /\ dbpc[p] = "new"
    /\ res' = [res EXCEPT ![p] = db]
    /\ lastOp' = [lastOp EXCEPT ![p] = "DB"]
    /\ opLock' = IF opLock = p THEN Nil ELSE opLock
    /\ dbpc' = [dbpc EXCEPT ![p] = "idle"]
    /\ UNCHANGED <<adapter, KKDBParamMaxIdleConn, KKDBParamConnMaxLifetime, dial, db,
                   retry, conn, calls, attempts, sleeps,
                   connects, nextRes, configured, dbClosed>>
    /\ UNCHANGED otherThanDB

\* database.go:462-468  KKDatabaseOp.Close(): closes ke.db when present
DBClose(p) ==
    /\ dbpc[p] = "idle"
    /\ calls < MaxCalls
    /\ calls' = calls + 1
    /\ dbClosed' = IF db /= Nil THEN dbClosed \cup {db} ELSE dbClosed
    /\ lastOp' = [lastOp EXCEPT ![p] = "Close"]
    /\ UNCHANGED <<adapter, KKDBParamMaxIdleConn, KKDBParamConnMaxLifetime, dial, db,
                   opLock, dbpc, retry, conn, res, attempts, sleeps,
                   connects, nextRes, configured>>
    /\ UNCHANGED otherThanDB

\* the steps of a DB() call that has started
DBRun(p) ==
    \/ DBFastCheck(p)
    \/ DBLock(p)
    \/ DBRecheck(p)
    \/ NewDBConnUnsupported(p)
    \/ NewDBConnOpenOk(p)
    \/ NewDBConnOpenErr(p)
    \/ NewDBConnConfigure(p)
    \/ DBReturnDirect(p)
    \/ DBAssign(p)
    \/ DBNew(p)

DBNext ==
    \E p \in Procs :
        \/ DBEnter(p)
        \/ DBRun(p)
        \/ DBClose(p)


(***************************************************************************)
(* CassandraOp: Session(), NewSession(), Close(), Exec() and the           *)
(* sync.Once-guarded columnMetadataInitialize.  Line numbers are those of  *)
(* src/unnamed/part_009, the CassandraOp with column metadata.             *)
(***************************************************************************)

\* outcomes cluster.CreateSession can have
CreateOutcomes == IF createMode = "ok" THEN {TRUE}
                  ELSE IF createMode = "fail" THEN {FALSE}
                  ELSE {TRUE, FALSE}

IdleCaller == [pc |-> "idle", op |-> "none", s |-> Nil, ret |-> Nil, once |-> Nil,
               row |-> 0, checked |-> Nil, closedAtCheck |-> {}, done |-> "none",
               fcalls |-> 0]

\* :129 and :146  "c.session != nil"
SessionPresent(s) == s /= Nil

\* :129 and :146  "c.session.Closed() == false" on a non-nil session
SessionReportsOpenAlways(s) == TRUE
SessionReportsOpen(s) == s \notin sessClosed

CassInit ==
    /\ createMode \in DialModes
    /\ session = Nil
    /\ cassLock = Nil
    /\ sessClosed = {}
    /\ nextSess = 1
    /\ columnsMetadata = {}
    /\ columnMetaOnce = 1
    /\ nextOnce = 2
    /\ onceDone = {}
    /\ onceHeld = {}
    /\ caller = [p \in Callers |-> IdleCaller]
    /\ sessOps = 0
    /\ sessCreates = 0
    /\ extClosed = {}
    /\ metaRuns = 0

\* a goroutine starts one of the operator's methods
CassBegin(p, op, at) ==
    /\ caller[p].pc = "idle"
    /\ sessOps < MaxSessOps
    /\ sessOps' = sessOps + 1
    /\ caller' = [caller EXCEPT ![p] = [@ EXCEPT !.pc = at, !.op = op, !.s = Nil,
                                                 !.once = Nil, !.row = 0,
                                                 !.checked = Nil, !.closedAtCheck = {}]]

\* :128  entry of Session()
SessionEnter(p) ==
    /\ CassBegin(p, "Session", "s_nil")
    /\ UNCHANGED <<createMode, session, cassLock, sessClosed, nextSess, columnsMetadata,
                   columnMetaOnce, nextOnce, onceDone, onceHeld, sessCreates>>
    /\ UNCHANGED <<extClosed, metaRuns>>
    /\ UNCHANGED otherThanCassandra

\* :129  first operand: c.session != nil, read without the lock
SessionCheckNil(p) ==
    /\ caller[p].pc = "s_nil"
    /\ caller' = [caller EXCEPT ![p] =
                    IF SessionPresent(session)
                    THEN [@ EXCEPT !.pc = "s_closed"]
                    ELSE [@ EXCEPT !.pc = "s_lock", !.closedAtCheck = sessClosed]]
    /\ UNCHANGED <<createMode, session, cassLock, sessClosed, nextSess, columnsMetadata,
                   columnMetaOnce, nextOnce, onceDone, onceHeld, sessOps, sessCreates>>
    /\ UNCHANGED <<extClosed, metaRuns>>
    /\ UNCHANGED otherThanCassandra

\* :129  second operand: c.session.Closed() == false; c.session is loaded again,
\* a nil pointer here is a nil dereference inside gocql
SessionCheckClosed(p) ==
    /\ caller[p].pc = "s_closed"
    /\ caller' = [caller EXCEPT ![p] =
                    IF ~SessionPresent(session)
                    THEN [@ EXCEPT !.pc = "panic", !.done = "panic"]
                    ELSE IF SessionReportsOpen(session)
                    THEN [@ EXCEPT !.pc = "s_ret", !.checked = session,
                                   !.closedAtCheck = sessClosed]
                    ELSE [@ EXCEPT !.pc = "s_lock", !.checked = session,
                                   !.closedAtCheck = sessClosed]]
    /\ UNCHANGED <<createMode, session, cassLock, sessClosed, nextSess, columnsMetadata,
                   columnMetaOnce, nextOnce, onceDone, onceHeld, sessOps, sessCreates>>
    /\ UNCHANGED <<extClosed, metaRuns>>
    /\ UNCHANGED otherThanCassandra

\* :130  return c.session (third load)
SessionReturnCached(p) ==
    /\ caller[p].pc = "s_ret"
    /\ caller' = [caller EXCEPT ![p] = [@ EXCEPT !.pc = "idle", !.ret = session,
                                                 !.done = "Session"]]
    /\ UNCHANGED <<createMode, session, cassLock, sessClosed, nextSess, columnsMetadata,
                   columnMetaOnce, nextOnce, onceDone, onceHeld, sessOps, sessCreates>>
    /\ UNCHANGED <<extClosed, metaRuns>>
    /\ UNCHANGED otherThanCassandra

\* :54,133,147  c.opLock: the mutex Session() and Close() take is the CassandraOp's own field
SessionGuardOfDatabaseOp == opLock
SessionGuard == cassLock

\* :133-136  c.opLock.Lock(); defer c.opLock.Unlock(); NewSession() is called next,
\* c.session is not tested again
SessionLock(p) ==
    /\ caller[p].pc = "s_lock"
    /\ MutexFree(SessionGuard)
    /\ cassLock' = p
    /\ caller' = [caller EXCEPT ![p] = [@ EXCEPT !.pc = "create"]]
    /\ UNCHANGED <<createMode, session, sessClosed, nextSess, columnsMetadata,
                   columnMetaOnce, nextOnce, onceDone, onceHeld, sessOps, sessCreates>>
    /\ UNCHANGED <<extClosed, metaRuns>>
    /\ UNCHANGED otherThanCassandra

\* :136  c.session, err = c.NewSession(): a failed NewSession() yields the nil session
FailedSessionPointerKept(old) == old
FailedSessionPointer(old) == Nil

\* :113-117  NewSession(): CreateSession fails; called from Session() (:136-139,
\* c.session is assigned the nil result) or from Exec() (:79-80)
NewSessionErr(p) ==
    /\ caller[p].pc = "create"
    /\ FALSE \in CreateOutcomes
    /\ sessCreates' = IF caller[p].op = "Session" THEN sessCreates + 1 ELSE sessCreates
    /\ IF caller[p].op = "Session"
       THEN /\ session' = FailedSessionPointer(session)
            /\ cassLock' = Nil
            /\ caller' = [caller EXCEPT ![p] = [@ EXCEPT !.pc = "idle", !.ret = Nil,
                                                         !.done = "Session"]]
       ELSE /\ caller' = [caller EXCEPT ![p] = [@ EXCEPT !.pc = "idle", !.done = "ExecErr"]]
            /\ UNCHANGED <<session, cassLock>>
    /\ UNCHANGED <<createMode, sessClosed, nextSess, columnsMetadata,
                   columnMetaOnce, nextOnce, onceDone, onceHeld, sessOps>>
    /\ UNCHANGED <<extClosed, metaRuns>>
    /\ UNCHANGED otherThanCassandra

\* :113  NewSession(): CreateSession succeeds
NewSessionOk(p) ==
    /\ caller[p].pc = "create"
    /\ TRUE \in CreateOutcomes
    /\ sessCreates' = IF caller[p].op = "Session" THEN sessCreates + 1 ELSE sessCreates
    /\ nextSess' = nextSess + 1
    /\ caller' = [caller EXCEPT ![p] = [@ EXCEPT !.pc = "once_load", !.s = nextSess]]
    /\ UNCHANGED <<createMode, session, cassLock, sessClosed, columnsMetadata,
                   columnMetaOnce, nextOnce, onceDone, onceHeld, sessOps>>
    /\ UNCHANGED <<extClosed, metaRuns>>
    /\ UNCHANGED otherThanCassandra

\* where NewSession() returns to
AfterNewSessionSkipsCallback(p) == IF caller[p].op = "Session" THEN "s_assign" ELSE "x_close"
AfterNewSession(p) == IF caller[p].op = "Session" THEN "s_assign" ELSE "x_f"

\* :119  c.columnMetaOnce.Do: load the pointer, fast path of sync.Once when done is set
OnceLoad(p) ==
    /\ caller[p].pc = "once_load"
    /\ caller' = [caller EXCEPT ![p] =
                    IF columnMetaOnce \in onceDone
                    THEN [@ EXCEPT !.pc = AfterNewSession(p), !.once = columnMetaOnce]
                    ELSE [@ EXCEPT !.pc = "once_lock", !.once = columnMetaOnce]]
    /\ UNCHANGED <<createMode, session, cassLock, sessClosed, nextSess, columnsMetadata,
                   columnMetaOnce, nextOnce, onceDone, onceHeld, sessOps, sessCreates>>
    /\ UNCHANGED <<extClosed, metaRuns>>
    /\ UNCHANGED otherThanCassandra

\* sync.Once.doSlow: o.m.Lock(); if o.done == 0 { defer store done; f() }
OnceLock(p) ==
    /\ caller[p].pc = "once_lock"
    /\ caller[p].once \notin onceHeld
    /\ IF caller[p].once \in onceDone
       THEN /\ caller' = [caller EXCEPT ![p] = [@ EXCEPT !.pc = AfterNewSession(p)]]
            /\ UNCHANGED onceHeld
       ELSE /\ caller' = [caller EXCEPT ![p] = [@ EXCEPT !.pc = "meta", !.row = 0]]
            /\ onceHeld' = onceHeld \cup {caller[p].once}
    /\ UNCHANGED <<createMode, session, cassLock, sessClosed, nextSess, columnsMetadata,
                   columnMetaOnce, nextOnce, onceDone, sessOps, sessCreates>>
    /\ UNCHANGED <<extClosed, metaRuns>>
    /\ UNCHANGED otherThanCassandra

\* :84-108  columnMetadataInitialize: the rows of the next table are scanned and
\* c.columnsMetadata[table] is written into the map the field holds at that time
MetadataTable(p) ==
    /\ caller[p].pc = "meta"
    /\ caller[p].row < NumTables
    /\ columnsMetadata' = columnsMetadata \cup {caller[p].row + 1}
    /\ caller' = [caller EXCEPT ![p] = [@ EXCEPT !.row = @ + 1]]
    /\ UNCHANGED <<createMode, session, cassLock, sessClosed, nextSess,
                   columnMetaOnce, nextOnce, onceDone, onceHeld, sessOps, sessCreates>>
    /\ UNCHANGED <<extClosed, metaRuns>>
    /\ UNCHANGED otherThanCassandra

\* :102-103 cursor exhausted; sync.Once stores done and unlocks; NewSession returns (:123)
OnceFinish(p) ==
    /\ caller[p].pc = "meta"
    /\ caller[p].row = NumTables
    /\ onceDone' = onceDone \cup {caller[p].once}
    /\ onceHeld' = onceHeld \ {caller[p].once}
    /\ caller' = [caller EXCEPT ![p] = [@ EXCEPT !.pc = AfterNewSession(p)]]
    /\ metaRuns' = metaRuns + 1
    /\ UNCHANGED <<createMode, session, cassLock, sessClosed, nextSess, columnsMetadata,
                   columnMetaOnce, nextOnce, sessOps, sessCreates>>
    /\ UNCHANGED extClosed
    /\ UNCHANGED otherThanCassandra

\* :136-141  c.session = <new session>; return c.session  (deferred Unlock)
SessionAssign(p) ==
    /\ caller[p].pc = "s_assign"
    /\ session' = caller[p].s
    /\ cassLock' = Nil
    /\ caller' = [caller EXCEPT ![p] = [@ EXCEPT !.pc = "idle", !.ret = caller[p].s,
                                                 !.once = Nil, !.row = 0,
                                                 !.done = "Session"]]
    /\ UNCHANGED <<createMode, sessClosed, nextSess, columnsMetadata,
                   columnMetaOnce, nextOnce, onceDone, onceHeld, sessOps, sessCreates>>
    /\ UNCHANGED <<extClosed, metaRuns>>
    /\ UNCHANGED otherThanCassandra

\* :74-75  entry of Exec(f): NewSession() without opLock
ExecEnter(p) ==
    /\ CassBegin(p, "Exec", "create")
    /\ UNCHANGED <<createMode, session, cassLock, sessClosed, nextSess, columnsMetadata,
                   columnMetaOnce, nextOnce, onceDone, onceHeld, sessCreates>>
    /\ UNCHANGED <<extClosed, metaRuns>>
    /\ UNCHANGED otherThanCassandra

\* :77  f(session)
ExecCallback(p) ==
    /\ caller[p].pc = "x_f"
    /\ caller' = [caller EXCEPT ![p] = [@ EXCEPT !.pc = "x_close", !.fcalls = @ + 1]]
    /\ UNCHANGED <<createMode, session, cassLock, sessClosed, nextSess, columnsMetadata,
                   columnMetaOnce, nextOnce, onceDone, onceHeld, sessOps, sessCreates>>
    /\ UNCHANGED <<extClosed, metaRuns>>
    /\ UNCHANGED otherThanCassandra

\* :76,78  deferred session.Close(); return nil
ExecClose(p) ==
    /\ caller[p].pc = "x_close"
    /\ sessClosed' = sessClosed \cup {caller[p].s}
    /\ caller' = [caller EXCEPT ![p] = [@ EXCEPT !.pc = "idle", !.s = Nil, !.once = Nil,
                                                 !.row = 0, !.done = "Exec", !.fcalls = 0]]
    /\ UNCHANGED <<createMode, session, cassLock, nextSess, columnsMetadata,
                   columnMetaOnce, nextOnce, onceDone, onceHeld, sessOps, sessCreates>>
    /\ UNCHANGED <<extClosed, metaRuns>>
    /\ UNCHANGED otherThanCassandra

\* :145  entry of Close()
CloseEnter(p) ==
    /\ CassBegin(p, "Close", "k_nil")
    /\ UNCHANGED <<createMode, session, cassLock, sessClosed, nextSess, columnsMetadata,
                   columnMetaOnce, nextOnce, onceDone, onceHeld, sessCreates>>
    /\ UNCHANGED <<extClosed, metaRuns>>
    /\ UNCHANGED otherThanCassandra

\* :146  first operand: c.session != nil, read without the lock
CloseCheckNil(p) ==
    /\ caller[p].pc = "k_nil"
    /\ caller' = [caller EXCEPT ![p] =
                    IF SessionPresent(session)
                    THEN [@ EXCEPT !.pc = "k_closed"]
                    ELSE [@ EXCEPT !.pc = "idle", !.done = "Close"]]
    /\ UNCHANGED <<createMode, session, cassLock, sessClosed, nextSess, columnsMetadata,
                   columnMetaOnce, nextOnce, onceDone, onceHeld, sessOps, sessCreates>>
    /\ UNCHANGED <<extClosed, metaRuns>>
    /\ UNCHANGED otherThanCassandra

\* :146  second operand: c.session.Closed() == false on a second load of c.session
CloseCheckClosed(p) ==
    /\ caller[p].pc = "k_closed"
    /\ caller' = [caller EXCEPT ![p] =
                    IF ~SessionPresent(session)
                    THEN [@ EXCEPT !.pc = "panic", !.done = "panic"]
                    ELSE IF SessionReportsOpen(session)
                    THEN [@ EXCEPT !.pc = "k_lock"]
                    ELSE [@ EXCEPT !.pc = "idle", !.done = "Close"]]
    /\ UNCHANGED <<createMode, session, cassLock, sessClosed, nextSess, columnsMetadata,
                   columnMetaOnce, nextOnce, onceDone, onceHeld, sessOps, sessCreates>>
    /\ UNCHANGED <<extClosed, metaRuns>>
    /\ UNCHANGED otherThanCassandra

\* :147-148  c.opLock.Lock(); defer c.opLock.Unlock()
CloseLock(p) ==
    /\ caller[p].pc = "k_lock"
    /\ MutexFree(SessionGuard)
    /\ cassLock' = p
    /\ caller' = [caller EXCEPT ![p] = [@ EXCEPT !.pc = "k_close"]]
    /\ UNCHANGED <<createMode, session, sessClosed, nextSess, columnsMetadata,
                   columnMetaOnce, nextOnce, onceDone, onceHeld, sessOps, sessCreates>>
    /\ UNCHANGED <<extClosed, metaRuns>>
    /\ UNCHANGED otherThanCassandra

\* :149  c.session.Close(): c.session is not tested again under the lock; on a nil
\* pointer gocql dereferences nil, the panic unwinds through the deferred Unlock
CloseSession(p) ==
    /\ caller[p].pc = "k_close"
    /\ IF SessionPresent(session)
       THEN /\ sessClosed' = sessClosed \cup {session}
            /\ caller' = [caller EXCEPT ![p] = [@ EXCEPT !.pc = "k_session", !.s = session]]
            /\ metaRuns' = 0
            /\ UNCHANGED cassLock
       ELSE /\ caller' = [caller EXCEPT ![p] = [@ EXCEPT !.pc = "panic", !.done = "panic"]]
            /\ cassLock' = Nil
            /\ UNCHANGED <<sessClosed, metaRuns>>
    /\ UNCHANGED <<createMode, session, nextSess, columnsMetadata,
                   columnMetaOnce, nextOnce, onceDone, onceHeld, sessOps, sessCreates>>
    /\ UNCHANGED extClosed
    /\ UNCHANGED otherThanCassandra

\* :150  the value Close() leaves in c.session
ClosedSessionPointerKept(s) == s
ClosedSessionPointer(s) == Nil

\* :150  c.session = nil
CloseResetSession(p) ==
    /\ caller[p].pc = "k_session"
    /\ session' = ClosedSessionPointer(session)
    /\ caller' = [caller EXCEPT ![p] = [@ EXCEPT !.pc = "k_meta"]]
    /\ UNCHANGED <<createMode, cassLock, sessClosed, nextSess, columnsMetadata,
                   columnMetaOnce, nextOnce, onceDone, onceHeld, sessOps, sessCreates>>
    /\ UNCHANGED <<extClosed, metaRuns>>
    /\ UNCHANGED otherThanCassandra

\* :151  c.columnsMetadata = map[string]CassandraColumnMetadata{}
CloseResetMetadata(p) ==
    /\ caller[p].pc = "k_meta"
    /\ columnsMetadata' = {}
    /\ caller' = [caller EXCEPT ![p] = [@ EXCEPT !.pc = "k_once"]]
    /\ UNCHANGED <<createMode, session, cassLock, sessClosed, nextSess,
                   columnMetaOnce, nextOnce, onceDone, onceHeld, sessOps, sessCreates>>
    /\ UNCHANGED <<extClosed, metaRuns>>
    /\ UNCHANGED otherThanCassandra

\* :152  c.columnMetaOnce = &sync.Once{}  (deferred Unlock)
CloseResetOnce(p) ==
    /\ caller[p].pc = "k_once"
    /\ columnMetaOnce' = nextOnce
    /\ nextOnce' = nextOnce + 1
    /\ cassLock' = Nil
    /\ caller' = [caller EXCEPT ![p] = [@ EXCEPT !.pc = "idle", !.s = Nil,
                                                 !.done = "Close"]]
    /\ UNCHANGED <<createMode, session, sessClosed, nextSess, columnsMetadata,
                   onceDone, onceHeld, sessOps, sessCreates>>
    /\ UNCHANGED <<extClosed, metaRuns>>
    /\ UNCHANGED otherThanCassandra

\* a holder of a session returned by Session() closes it directly (gocql Session.Close)
ExternalClose(p) ==
    /\ caller[p].pc = "idle"
    /\ sessOps < MaxSessOps
    /\ caller[p].ret /= Nil
    /\ caller[p].ret \notin sessClosed
    /\ sessOps' = sessOps + 1
    /\ sessClosed' = sessClosed \cup {caller[p].ret}
    /\ caller' = [caller EXCEPT ![p] = [@ EXCEPT !.op = "ExternalClose", !.s = Nil,
                                                 !.checked = Nil, !.closedAtCheck = {},
                                                 !.done = "ExternalClose"]]
    /\ UNCHANGED <<createMode, session, cassLock, nextSess, columnsMetadata,
                   columnMetaOnce, nextOnce, onceDone, onceHeld, sessCreates>>
    /\ extClosed' = extClosed \cup {caller[p].ret}
    /\ metaRuns' = IF caller[p].ret = session THEN 0 ELSE metaRuns
    /\ UNCHANGED otherThanCassandra

\* the steps goroutine p can take on the operator
CassStep(p) ==
        \/ SessionEnter(p)
        \/ SessionCheckNil(p)
        \/ SessionCheckClosed(p)
        \/ SessionReturnCached(p)
        \/ SessionLock(p)
        \/ NewSessionErr(p)
        \/ NewSessionOk(p)
        \/ OnceLoad(p)
        \/ OnceLock(p)
        \/ MetadataTable(p)
        \/ OnceFinish(p)
        \/ SessionAssign(p)
        \/ ExecEnter(p)
        \/ ExecCallback(p)
        \/ ExecClose(p)
        \/ CloseEnter(p)
        \/ CloseCheckNil(p)
        \/ CloseCheckClosed(p)
        \/ CloseLock(p)
        \/ CloseSession(p)
        \/ CloseResetSession(p)
        \/ CloseResetMetadata(p)
        \/ CloseResetOnce(p)
        \/ ExternalClose(p)

CassNext == \E p \in Callers : CassStep(p)

(***************************************************************************)
(* RedisOp.Pipeline.  Line numbers are those of src/unnamed/part_000, the  *)
(* RedisOp with Pipeline.                                                  *)
(***************************************************************************)

\* command names a caller puts into a batch
Cmds == {"SET", "GET"}

\* what one conn.Receive can yield: a value, a nil reply, or an error
ReplyKinds == {"value", "nil", "error"}

CmdSeqs == UNION {[1..n -> Cmds] : n \in 0..MaxCmds}

NoData == [pos |-> 0, cmd |-> "none"]
NoError == [kind |-> "none", at |-> 0]

\* :455  var RedisNotFound = fmt.Errorf("not_found")
RedisNotFound == [kind |-> "not_found", at |-> 0]

\* a nil *RedisResponse, as make([]*RedisResponse, n) leaves every slot
NilResponse == [present |-> FALSE, data |-> NoData, err |-> NoError]

\* :500  &RedisResponse{Error: fmt.Errorf("pipeline send failed at cmd %d: %w", j, err)}; j is 0-based
SendErrorResponse(j) ==
    [present |-> TRUE, data |-> NoData, err |-> [kind |-> "send_failed", at |-> j - 1]]

\* :512  &RedisResponse{Error: fmt.Errorf("pipeline flush failed: %w", err)}
FlushErrorResponse ==
    [present |-> TRUE, data |-> NoData, err |-> [kind |-> "flush_failed", at |-> 0]]

\* the error the k-th conn.Receive of the call returned
ReceiveError(k) == [kind |-> "reply_error", at |-> k]

\* :525-539  the envelope built from one Receive result
EnvelopeOfNilAsValue(r) ==
    IF r.kind = "error" THEN [present |-> TRUE, data |-> NoData, err |-> ReceiveError(r.pos)]
    ELSE [present |-> TRUE,
          data |-> IF r.kind = "nil" THEN NoData ELSE [pos |-> r.pos, cmd |-> r.cmd],
          err |-> NoError]
EnvelopeOf(r) ==
    IF r.kind = "error" THEN [present |-> TRUE, data |-> NoData, err |-> ReceiveError(r.pos)]
    ELSE IF r.kind = "nil" THEN [present |-> TRUE, data |-> NoData, err |-> RedisNotFound]
    ELSE [present |-> TRUE, data |-> [pos |-> r.pos, cmd |-> r.cmd], err |-> NoError]

\* :495-496  for i, c := range cmds { conn.Send(c.Cmd, c.Args...) }
CmdAtReversed(cs, i) == cs[Len(cs) + 1 - i]
CmdAt(cs, i) == cs[i]

\* :499  for j := i; j < n; j++  -- the slots marked when Send fails at i
SendFailMarkedAfter(i, n) == (i + 1)..n
SendFailMarked(i, n) == i..n

\* :515  return responses, after a failed Flush
AfterFlushErrorFallThrough == "recv"
AfterFlushError == "ret"

\* :526-530  on a Receive error the loop continues with the next index
ReceiveLoopAbort(i, n, failed) == IF failed THEN n + 1 ELSE i + 1
ReceiveLoopNext(i, n, failed) == i + 1

\* :483  len(cmds) == 0
EmptyBatchNever(cs) == FALSE
EmptyBatch(cs) == Len(cs) = 0

\* a nil interface{} value: the data of an envelope built without a reply
NilValue == [type |-> "nil", n |-> 0, b |-> ""]

\* reply shapes redigo hands back from conn.Do: bulk strings ([]byte), integers
\* (int64) and status replies (string)
DoValues == {[type |-> "bytes", n |-> 0, b |-> "v"],
             [type |-> "bytes", n |-> 0, b |-> ""],
             [type |-> "int64", n |-> 7, b |-> ""],
             [type |-> "string", n |-> 0, b |-> "OK"]}

\* what one conn.Do can return: (r, nil) with r a value or nil, or (_, err)
DoReplies == {[kind |-> "value", val |-> v] : v \in DoValues}
             \cup {[kind |-> "nil", val |-> NilValue], [kind |-> "error", val |-> NilValue]}

NoReply == [kind |-> "none", val |-> NilValue]

\* the error conn.Do returned
DoError == [kind |-> "reply_error", at |-> 1]

\* :548-563  the envelope _Do builds from (r, err)
DoEnvelopeErrorAsNotFound(r) ==
    IF r.kind = "error" \/ r.val = NilValue
    THEN [present |-> TRUE, data |-> NilValue, err |-> RedisNotFound]
    ELSE [present |-> TRUE, data |-> r.val, err |-> NoError]
DoEnvelopeOf(r) ==
    IF r.kind /= "error"
    THEN IF r.val = NilValue
         THEN [present |-> TRUE, data |-> NilValue, err |-> RedisNotFound]
         ELSE [present |-> TRUE, data |-> r.val, err |-> NoError]
    ELSE [present |-> TRUE, data |-> NilValue, err |-> DoError]

\* fmt.Errorf("...: %w", err) as at :500 and :512: an error that wraps err
WrapError(kind, err) == [kind |-> kind, at |-> 0, inner |-> err]

\* errors.Unwrap: the wrapped error, nil when the error wraps nothing
Unwrap(err) == IF "inner" \in DOMAIN err THEN err.inner ELSE NoError

\* errors.Is(err, target): err or an error on its Unwrap chain is target itself
RECURSIVE ErrorsIs(_, _)
ErrorsIs(err, target) ==
    IF err = NoError THEN FALSE
    ELSE IF err = target THEN TRUE
    ELSE ErrorsIs(Unwrap(err), target)

\* :1347-1349  RedisResponse.RecordNotFound: errors.Is(k.Error, RedisNotFound)
RecordNotFound(k) == ErrorsIs(k.err, RedisNotFound)

\* :270-272  KKRedisOpResponse.RecordNotFound: k.Error == RedisNotFound
KKRedisOpResponseRecordNotFound(k) == k.err = RedisNotFound

\* :1304-1313  GetString: []byte -> string(v); int64 -> "%d"; default -> "%v",
\* which renders a nil interface as "<nil>"
GetString(data) ==
    IF data.type = "bytes" THEN data.b
    ELSE IF data.type = "int64" THEN ToString(data.n)
    ELSE IF data.type = "nil" THEN "<nil>"
    ELSE data.b

PipeInit ==
    /\ doReply = NoReply
    /\ doResponse = NilResponse
    /\ doCalls = 0
    /\ cmds = <<>>
    /\ ppc = "idle"
    /\ idx = 0
    /\ responses = <<>>
    /\ sent = <<>>
    /\ wire = <<>>
    /\ replies = <<>>
    /\ sendCalls = 0
    /\ flushCalls = 0
    /\ recvCalls = 0
    /\ connGets = 0
    /\ connCloses = 0
    /\ outcome = "none"
    /\ pipelines = 0

\* :483-485  if len(cmds) == 0 { return nil }
PipelineEmpty ==
    /\ ppc = "idle"
    /\ pipelines < MaxPipelines
    /\ EmptyBatch(<<>>)
    /\ doReply' = NoReply /\ doResponse' = NilResponse /\ doCalls' = 0
    /\ pipelines' = pipelines + 1
    /\ cmds' = <<>>
    /\ responses' = <<>>
    /\ sent' = <<>>
    /\ wire' = <<>>
    /\ replies' = <<>>
    /\ idx' = 0
    /\ sendCalls' = 0 /\ flushCalls' = 0 /\ recvCalls' = 0
    /\ connGets' = 0 /\ connCloses' = 0
    /\ outcome' = "empty"
    /\ UNCHANGED ppc
    /\ UNCHANGED otherThanPipeline

\* :487-492  conn := o.Conn(); defer conn.Close(); responses, sent := make(.., n)
PipelineCall(cs) ==
    /\ ppc = "idle"
    /\ pipelines < MaxPipelines
    /\ ~EmptyBatch(cs)
    /\ doReply' = NoReply /\ doResponse' = NilResponse /\ doCalls' = 0
    /\ pipelines' = pipelines + 1
    /\ cmds' = cs
    /\ responses' = [j \in 1..Len(cs) |-> NilResponse]
    /\ sent' = [j \in 1..Len(cs) |-> FALSE]
    /\ wire' = <<>>
    /\ replies' = <<>>
    /\ idx' = 1
    /\ sendCalls' = 0 /\ flushCalls' = 0 /\ recvCalls' = 0
    /\ connGets' = 1 /\ connCloses' = 0
    /\ outcome' = "running"
    /\ ppc' = IF Len(cs) = 0 THEN "flush" ELSE "send"
    /\ UNCHANGED otherThanPipeline

\* :496,504  conn.Send succeeds: the command is buffered, sent[i] = true
PipelineSendOk ==
    /\ ppc = "send"
    /\ sendCalls' = sendCalls + 1
    /\ wire' = Append(wire, CmdAt(cmds, idx))
    /\ sent' = [sent EXCEPT ![idx] = TRUE]
    /\ idx' = idx + 1
    /\ ppc' = IF idx = Len(cmds) THEN "flush" ELSE "send"
    /\ UNCHANGED <<cmds, responses, replies, flushCalls, recvCalls, connGets, connCloses,
                   outcome, pipelines>>
    /\ UNCHANGED doVars
    /\ UNCHANGED otherThanPipeline

\* :496-502  conn.Send fails at i: mark i..n-1, return responses
PipelineSendErr ==
    /\ ppc = "send"
    /\ sendCalls' = sendCalls + 1
    /\ responses' = [j \in 1..Len(cmds) |->
                       IF j \in SendFailMarked(idx, Len(cmds))
                       THEN SendErrorResponse(j) ELSE responses[j]]
    /\ outcome' = "send_failed"
    /\ ppc' = "ret"
    /\ UNCHANGED <<cmds, idx, sent, wire, replies, flushCalls, recvCalls, connGets,
                   connCloses, pipelines>>
    /\ UNCHANGED doVars
    /\ UNCHANGED otherThanPipeline

\* :508  conn.Flush succeeds: the server answers every flushed command, in order
PipelineFlushOk ==
    /\ ppc = "flush"
    /\ flushCalls' = flushCalls + 1
    /\ \E ks \in [1..Len(wire) -> ReplyKinds] :
          replies' = [k \in 1..Len(wire) |-> [pos |-> k, cmd |-> wire[k], kind |-> ks[k]]]
    /\ idx' = 1
    /\ ppc' = "recv"
    /\ UNCHANGED <<cmds, responses, sent, wire, sendCalls, recvCalls, connGets, connCloses,
                   outcome, pipelines>>
    /\ UNCHANGED doVars
    /\ UNCHANGED otherThanPipeline

\* :508-516  conn.Flush fails: every nil slot gets the flush error, return responses
PipelineFlushErr ==
    /\ ppc = "flush"
    /\ flushCalls' = flushCalls + 1
    /\ responses' = [j \in 1..Len(cmds) |->
                       IF ~responses[j].present THEN FlushErrorResponse ELSE responses[j]]
    /\ outcome' = "flush_failed"
    /\ idx' = 1
    /\ ppc' = AfterFlushError
    /\ UNCHANGED <<cmds, sent, wire, replies, sendCalls, recvCalls, connGets, connCloses,
                   pipelines>>
    /\ UNCHANGED doVars
    /\ UNCHANGED otherThanPipeline

\* the result of the next conn.Receive: the next queued reply, or an I/O error
\* when the server has queued nothing more
NextReply == IF recvCalls < Len(replies) THEN replies[recvCalls + 1]
             ELSE [pos |-> recvCalls + 1, cmd |-> "none", kind |-> "error"]

\* :519-540  one iteration of the receive loop
PipelineReceive ==
    /\ ppc = "recv"
    /\ idx <= Len(cmds)
    /\ IF ~sent[idx]
       THEN /\ idx' = idx + 1
            /\ UNCHANGED <<responses, recvCalls>>
       ELSE /\ recvCalls' = recvCalls + 1
            /\ responses' = [responses EXCEPT ![idx] = EnvelopeOf(NextReply)]
            /\ idx' = ReceiveLoopNext(idx, Len(cmds), NextReply.kind = "error")
    /\ UNCHANGED <<cmds, ppc, sent, wire, replies, sendCalls, flushCalls, connGets,
                   connCloses, outcome, pipelines>>
    /\ UNCHANGED doVars
    /\ UNCHANGED otherThanPipeline

\* :519,542  loop finished: return responses
PipelineReceiveDone ==
    /\ ppc = "recv"
    /\ idx > Len(cmds)
    /\ outcome' = IF outcome = "running" THEN "read" ELSE outcome
    /\ ppc' = "ret"
    /\ UNCHANGED <<cmds, idx, responses, sent, wire, replies, sendCalls, flushCalls,
                   recvCalls, connGets, connCloses, pipelines>>
    /\ UNCHANGED doVars
    /\ UNCHANGED otherThanPipeline

\* :488  the deferred conn.Close() runs as Pipeline returns
PipelineReturn ==
    /\ ppc = "ret"
    /\ connCloses' = connCloses + 1
    /\ ppc' = "idle"
    /\ UNCHANGED <<cmds, idx, responses, sent, wire, replies, sendCalls, flushCalls,
                   recvCalls, connGets, outcome, pipelines>>
    /\ UNCHANGED doVars
    /\ UNCHANGED otherThanPipeline

\* :547,549-562  every return of _Do passes through the deferred conn.Close()
AfterDoNoRelease == "idle"
AfterDo == "do_ret"

\* :545-547  entry of _Do(cmd, args...): conn := o.Conn(); defer conn.Close()
DoCall(c) ==
    /\ ppc = "idle"
    /\ pipelines < MaxPipelines
    /\ pipelines' = pipelines + 1
    /\ cmds' = <<c>>
    /\ responses' = <<>>
    /\ sent' = <<>>
    /\ wire' = <<>>
    /\ replies' = <<>>
    /\ idx' = 0
    /\ sendCalls' = 0 /\ flushCalls' = 0 /\ recvCalls' = 0
    /\ connGets' = 1 /\ connCloses' = 0
    /\ doReply' = NoReply /\ doResponse' = NilResponse /\ doCalls' = 0
    /\ outcome' = "do_running"
    /\ ppc' = "do"
    /\ UNCHANGED otherThanPipeline

\* :548-563  r, err := conn.Do(cmd, args...) and the envelope built from it
DoExec ==
    /\ ppc = "do"
    /\ \E r \in DoReplies :
          /\ doReply' = r
          /\ doResponse' = DoEnvelopeOf(r)
    /\ doCalls' = doCalls + 1
    /\ ppc' = AfterDo
    /\ UNCHANGED <<cmds, idx, responses, sent, wire, replies, sendCalls, flushCalls,
                   recvCalls, connGets, connCloses, outcome, pipelines>>
    /\ UNCHANGED otherThanPipeline

\* :547  the deferred conn.Close() runs as _Do returns
DoReturn ==
    /\ ppc = "do_ret"
    /\ connCloses' = connCloses + 1
    /\ outcome' = "do"
    /\ ppc' = "idle"
    /\ UNCHANGED <<cmds, idx, responses, sent, wire, replies, sendCalls, flushCalls,
                   recvCalls, connGets, pipelines, doVars>>
    /\ UNCHANGED otherThanPipeline

PipeNext ==
    \/ \E c \in Cmds : DoCall(c)
    \/ DoExec
    \/ DoReturn
    \/ PipelineEmpty
    \/ \E cs \in CmdSeqs : PipelineCall(cs)
    \/ PipelineSendOk
    \/ PipelineSendErr
    \/ PipelineFlushOk
    \/ PipelineFlushErr
    \/ PipelineReceive
    \/ PipelineReceiveDone
    \/ PipelineReturn

(***************************************************************************)
(* CassandraOp.columnMetadataInitialize, row by row.  Line numbers are     *)
(* those of src/unnamed/part_009.  Tables and columns are numbered in the  *)
(* order of their names, so "order by table_name, column_name" is the      *)
(* numeric order of (table, column).                                       *)
(***************************************************************************)

\* :90  the zero value "" of columnMetadata.tableName
NoTable == 0

\* kind and type a catalog row can carry
ColumnShapes == {[kind |-> "partition_key", type |-> "int"],
                 [kind |-> "clustering", type |-> "text"],
                 [kind |-> "regular", type |-> "text"]}

\* a (table, column) pair the keyspace does not have: no row
AbsentColumn == [kind |-> "absent", type |-> ""]

NumPairs == NumTables * NumColumns
TableOfPair(k) == ((k - 1) \div NumColumns) + 1
ColumnOfPair(k) == ((k - 1) % NumColumns) + 1

\* :85  the rows of system_schema.columns for the keyspace, ordered by
\* (table_name, column_name): f says for each (table, column) whether the
\* column exists and with which kind and type
RECURSIVE CatalogRows(_, _)
CatalogRows(f, k) ==
    IF k > NumPairs THEN <<>>
    ELSE (IF f[k] = AbsentColumn THEN <<>>
          ELSE <<[table |-> TableOfPair(k), column |-> ColumnOfPair(k),
                  kind |-> f[k].kind, type |-> f[k].type]>>)
         \o CatalogRows(f, k + 1)

\* :86  columnMetadata := CassandraColumnMetadata{}  (nil Columns map)
EmptyColumnMetadata == [tableName |-> NoTable, Columns |-> Nil]

\* :92,94,99  CassandraColumnMetadataColumn{Name: columnName, Kind: columnKind, Type: columnType}
ColumnOfRow(r) == [Name |-> r.column, Kind |-> r.kind, Type |-> r.type]

\* :94  Columns[columnName] = ...: the entry of that name is set or replaced
MapPut(m, c) == {x \in m : x.Name /= c.Name} \cup {c}

\* :93  columnMetadata.TableName() == tableName
SameTableAlways(a, b) == TRUE
SameTable(a, b) == a = b

MetaInit ==
    /\ \E f \in [1..NumPairs -> ColumnShapes \cup {AbsentColumn}] : catalog = CatalogRows(f, 1)
    /\ cursor = 0
    /\ mpc = "scan"
    /\ columnMetadata = EmptyColumnMetadata
    /\ mapHeap = <<>>
    /\ metaEntries = <<>>

\* :90  columnMetadata.tableName == "": no row has gone into the accumulator yet
AccumulatorEmptyAlways(acc) == TRUE
AccumulatorEmpty(acc) == acc.tableName = NoTable

\* :87-105  one iteration in which iter.Scan delivers a row: the accumulator is
\* started, extended or replaced, then stored under its table name
MetadataScanRow ==
    /\ mpc = "scan"
    /\ cursor < Len(catalog)
    /\ LET row == catalog[cursor + 1]
           extend == /\ ~AccumulatorEmpty(columnMetadata)
                     /\ SameTable(columnMetadata.tableName, row.table)
           acc == IF extend THEN columnMetadata
                  ELSE [tableName |-> row.table, Columns |-> Len(mapHeap) + 1]
       IN /\ mapHeap' = IF extend
                        THEN [mapHeap EXCEPT ![columnMetadata.Columns] =
                                                MapPut(@, ColumnOfRow(row))]
                        ELSE Append(mapHeap, {ColumnOfRow(row)})
          /\ columnMetadata' = acc
          /\ metaEntries' = [t \in (DOMAIN metaEntries) \cup {acc.tableName} |->
                                IF t = acc.tableName THEN acc ELSE metaEntries[t]]
    /\ cursor' = cursor + 1
    /\ UNCHANGED <<catalog, mpc>>
    /\ UNCHANGED otherThanMetadata

\* :101-103  iter.Scan returns false: break
MetadataScanEnd ==
    /\ mpc = "scan"
    /\ cursor = Len(catalog)
    /\ mpc' = "done"
    /\ UNCHANGED <<catalog, cursor, columnMetadata, mapHeap, metaEntries>>
    /\ UNCHANGED otherThanMetadata

MetaNext ==
    \/ MetadataScanRow
    \/ MetadataScanEnd

(***************************************************************************)
(* Value methods: the retry policy CassandraOp.Attempt / GetRetryType,     *)
(* CassandraColumnMetadata.PartitionKeys / ClusteringKeys, and             *)
(* RecordNotFound of the two response types.                               *)
(***************************************************************************)

\* part_009:167  time.Sleep(time.Millisecond * 100)
BackoffMillis == 100

\* query.Attempts() values a query can report
AttemptCounts == 0..(MaxRetryBound + 1)

\* part_009:165  eval := query.Attempts() < c.MaxRetryAttempt
RetryAllowedInclusive(n, max) == n <= max
RetryAllowed(n, max) == n < max

\* part_009:164-171  Attempt: the result and the time slept before returning
Attempt(n, max) ==
    LET eval == RetryAllowed(n, max)
    IN  [eval |-> eval, slept |-> IF eval THEN BackoffMillis ELSE 0]

\* gocql.RetryType values
RetryTypes == {"Retry", "RetryNextHost", "Ignore", "Rethrow"}

\* part_009:173-175  return gocql.RetryNextHost
GetRetryTypeSameHostOnNil(err) == IF err = NoError THEN "Retry" ELSE "RetryNextHost"
GetRetryType(err) == "RetryNextHost"

\* an error some other code made with the sentinel's message: a different value
NotFoundLookAlike == [kind |-> "not_found", at |-> 1]

\* error values an envelope can carry
ErrorValues == {NoError, RedisNotFound, NotFoundLookAlike, DoError,
                WrapError("lookup", RedisNotFound),
                WrapError("lookup", WrapError("get", RedisNotFound)),
                WrapError("lookup", NotFoundLookAlike),
                WrapError("lookup", DoError)}

\* an envelope with that Error and no payload
ResponseWith(err) == [present |-> TRUE, data |-> NilValue, err |-> err]

\* the kind column of system_schema.columns
ColumnKinds == {"partition_key", "clustering", "regular", "static"}

\* part_009:253-255  c.Kind == "partition_key"
IsPartitionKeyOrClustering(c) == c.Kind \in {"partition_key", "clustering"}
IsPartitionKey(c) == c.Kind = "partition_key"

\* part_009:257-259  c.Kind == "clustering"
IsClusteringKey(c) == c.Kind = "clustering"

\* the orders in which a range over the map can visit its entries
MapOrders(m) ==
    {o \in [1..Cardinality(m) -> m] : \A i, j \in 1..Cardinality(m) : i /= j => o[i] /= o[j]}

\* part_009:227-235  for _, column := range c.Columns { if column.IsPartitionKey() { append column.Name } }
PartitionKeys(order) ==
    LET kept == SelectSeq(order, IsPartitionKey)
    IN  [i \in 1..Len(kept) |-> kept[i].Name]

\* part_009:237-245  for _, column := range c.Columns { if column.IsClusteringKey() { append column.Name } }
ClusteringKeys(order) ==
    LET kept == SelectSeq(order, IsClusteringKey)
    IN  [i \in 1..Len(kept) |-> kept[i].Name]

\* no call made: the fields of a call record are the method, the receiver's state
\* when called (max, err), the argument (n, err), the result (ok, retryType,
\* keys) and the time slept
NoCall == [fn |-> "none", max |-> 0, n |-> 0, err |-> NoError,
           ok |-> FALSE, retryType |-> "none", keys |-> <<>>, slept |-> 0]

\* part_000:1281-1283  data interface{}: the dynamic type, and the value as an
\* integer (int64) or as its characters ([]byte, string)
NilEntity == [type |-> "nil", n |-> 0, raw |-> <<>>]

\* characters a reply can hold
Chars == {"0", "1", "2", "9", "-", "+", "a", " ", "_", "."}

DigitValue == [c \in {"0", "1", "2", "9"} |->
                 IF c = "0" THEN 0 ELSE IF c = "1" THEN 1 ELSE IF c = "2" THEN 2 ELSE 9]

CharSeqs == UNION {[1..k -> Chars] : k \in 0..MaxBytes}

\* the data a RedisResponseEntity can hold: nil, int64, []byte, string, []interface{}
EntityValues ==
    {NilEntity, [type |-> "slice", n |-> 0, raw |-> <<>>]}
    \cup {[type |-> "int64", n |-> v, raw |-> <<>>] : v \in {-12, 0, 7, 123}}
    \cup {[type |-> "bytes", n |-> 0, raw |-> r] : r \in CharSeqs}
    \cup {[type |-> "string", n |-> 0, raw |-> r] : r \in {<<"1", "2">>, <<"a">>}}

\* the value of a sequence of decimal digits
RECURSIVE DigitsValue(_)
DigitsValue(ds) ==
    IF Len(ds) = 0 THEN 0
    ELSE 10 * DigitsValue(SubSeq(ds, 1, Len(ds) - 1)) + DigitValue[ds[Len(ds)]]

\* strconv.ParseInt(s, 10, 64): an optional sign followed by one or more decimal
\* digits and nothing else; strings of MaxBytes characters are within 64 bits
ParseIntIgnoringSign(cs) ==
    LET signed == Len(cs) > 0 /\ cs[1] \in {"+", "-"}
        digits == IF signed THEN Tail(cs) ELSE cs
    IN  IF Len(digits) = 0 \/ \E i \in 1..Len(digits) : digits[i] \notin DOMAIN DigitValue
        THEN [ok |-> FALSE, n |-> 0]
        ELSE [ok |-> TRUE, n |-> DigitsValue(digits)]
ParseInt(cs) ==
    LET signed == Len(cs) > 0 /\ cs[1] \in {"+", "-"}
        digits == IF signed THEN Tail(cs) ELSE cs
    IN  IF Len(digits) = 0 \/ \E i \in 1..Len(digits) : digits[i] \notin DOMAIN DigitValue
        THEN [ok |-> FALSE, n |-> 0]
        ELSE [ok |-> TRUE,
              n |-> IF signed /\ cs[1] = "-" THEN 0 - DigitsValue(digits) ELSE DigitsValue(digits)]

\* part_000:1287-1300  GetInt64: int64 -> v; []byte -> ParseInt or 0; anything else -> 0
GetInt64(data) ==
    IF data.type = "int64" THEN data.n
    ELSE IF data.type = "bytes"
         THEN (IF ParseInt(data.raw).ok THEN ParseInt(data.raw).n ELSE 0)
         ELSE 0

\* the Columns maps over the column names: every name absent or of some kind
ColumnMaps ==
    {{[Name |-> c, Kind |-> f[c], Type |-> "text"] : c \in {x \in Columns : f[x] /= "absent"}} :
        f \in [Columns -> ColumnKinds \cup {"absent"}]}

ValueInit ==
    /\ MaxRetryAttempt \in 0..MaxRetryBound
    /\ tableMetadata \in {[Columns |-> m] : m \in ColumnMaps}
    /\ lastCall = NoCall
    /\ entity = NilEntity

\* gocql asks the policy whether to retry a query that has made some n
AttemptCall(n) ==
    /\ lastCall' = [NoCall EXCEPT !.fn = "Attempt", !.max = MaxRetryAttempt, !.n = n,
                                  !.ok = Attempt(n, MaxRetryAttempt).eval,
                                  !.slept = Attempt(n, MaxRetryAttempt).slept]
    /\ UNCHANGED <<MaxRetryAttempt, tableMetadata, entity>>
    /\ UNCHANGED otherThanValues

\* gocql asks the policy where to retry after an error
GetRetryTypeCall(err) ==
    /\ lastCall' = [NoCall EXCEPT !.fn = "GetRetryType", !.max = MaxRetryAttempt, !.err = err,
                                  !.retryType = GetRetryType(err)]
    /\ UNCHANGED <<MaxRetryAttempt, tableMetadata, entity>>
    /\ UNCHANGED otherThanValues

\* part_009:94  Columns[columnName] = CassandraColumnMetadataColumn{...}: the map changes
ColumnsPut(c) ==
    /\ tableMetadata' = [tableMetadata EXCEPT !.Columns = MapPut(@, c)]
    /\ UNCHANGED <<MaxRetryAttempt, lastCall, entity>>
    /\ UNCHANGED otherThanValues

\* PartitionKeys() on the metadata value; the range visits the map in some order
PartitionKeysCall ==
    /\ \E order \in MapOrders(tableMetadata.Columns) :
          lastCall' = [NoCall EXCEPT !.fn = "PartitionKeys", !.keys = PartitionKeys(order)]
    /\ UNCHANGED <<MaxRetryAttempt, tableMetadata, entity>>
    /\ UNCHANGED otherThanValues

\* ClusteringKeys() on the metadata value; the range visits the map in some order
ClusteringKeysCall ==
    /\ \E order \in MapOrders(tableMetadata.Columns) :
          lastCall' = [NoCall EXCEPT !.fn = "ClusteringKeys", !.keys = ClusteringKeys(order)]
    /\ UNCHANGED <<MaxRetryAttempt, tableMetadata, entity>>
    /\ UNCHANGED otherThanValues

\* RecordNotFound() on a *RedisResponse carrying that Error
RecordNotFoundCall(err) ==
    /\ lastCall' = [NoCall EXCEPT !.fn = "RedisResponse.RecordNotFound", !.err = err,
                                  !.ok = RecordNotFound(ResponseWith(err))]
    /\ UNCHANGED <<MaxRetryAttempt, tableMetadata, entity>>
    /\ UNCHANGED otherThanValues

\* RecordNotFound() on a *KKRedisOpResponse carrying that Error
KKRedisOpResponseRecordNotFoundCall(err) ==
    /\ lastCall' = [NoCall EXCEPT !.fn = "KKRedisOpResponse.RecordNotFound", !.err = err,
                                  !.ok = KKRedisOpResponseRecordNotFound(ResponseWith(err))]
    /\ UNCHANGED <<MaxRetryAttempt, tableMetadata, entity>>
    /\ UNCHANGED otherThanValues

ValueNext ==
    \/ \E n \in AttemptCounts : AttemptCall(n)
    \/ \E err \in ErrorValues : GetRetryTypeCall(err)
    \/ \E c \in Columns, k \in ColumnKinds : ColumnsPut([Name |-> c, Kind |-> k, Type |-> "text"])
    \/ PartitionKeysCall
    \/ ClusteringKeysCall
    \/ \E err \in ErrorValues : RecordNotFoundCall(err)
    \/ \E err \in ErrorValues : KKRedisOpResponseRecordNotFoundCall(err)

\* GetInt64() on the entity
GetInt64Call ==
    /\ lastCall' = [NoCall EXCEPT !.fn = "GetInt64", !.n = GetInt64(entity)]
    /\ UNCHANGED <<MaxRetryAttempt, tableMetadata, entity>>
    /\ UNCHANGED otherThanValues

\* a reply is wrapped: &RedisResponse{RedisResponseEntity: RedisResponseEntity{data: r}}
EntitySet(data) ==
    /\ entity' = data
    /\ lastCall' = NoCall
    /\ UNCHANGED <<MaxRetryAttempt, tableMetadata>>
    /\ UNCHANGED otherThanValues

EntityNext ==
    \/ GetInt64Call
    \/ \E data \in EntityValues : EntitySet(data)

\* no value method called
ValueQuiet ==
    /\ MaxRetryAttempt = 0
    /\ tableMetadata = [Columns |-> {}]
    /\ lastCall = NoCall
    /\ entity = NilEntity

\* an entity holding any data, nothing called yet
EntityInit ==
    /\ MaxRetryAttempt = 0
    /\ tableMetadata = [Columns |-> {}]
    /\ lastCall = NoCall
    /\ entity \in EntityValues

(***************************************************************************)
(* The registry: KKDB(dbname), database.go:474-547.  KKREDIS               *)
(* (part_000:274-316) and KKCassandra (part_008:60-118) are the same code  *)
(* over their own map, mutex and debug flag.                               *)
(***************************************************************************)

Names == 1..NumNames

\* database.go:475-479  _KKDatabaseDebug.Do: KKDatabaseDebug is raised from the
\* environment unless it is already set; runs once
DebugAfterOnce == IF debugOnceDone THEN KKDatabaseDebug ELSE (KKDatabaseDebug \/ debugEnv)

\* database.go:496  if r, f := KKDatabaseProfiles.Load(dbname); !f
RegistryMissAlways(r) == TRUE
RegistryMiss(r) == r = Nil

\* database.go:492-494  if KKDatabaseDebug { KKDatabaseProfiles.Delete(dbname) }
EntryAfterDebugDeleteKept(debug, r) == r
EntryAfterDebugDelete(debug, r) == IF debug THEN Nil ELSE r

RegInit ==
    /\ KKDatabaseDebug \in BOOLEAN
    /\ debugEnv \in BOOLEAN
    /\ debugOnceDone = FALSE
    /\ KKDatabaseProfiles = [n \in Names |-> Nil]
    /\ KKDatabaseLocker = Nil
    /\ secretProfiles \in SUBSET Names
    /\ regpc = [p \in Procs |-> "idle"]
    /\ regName = [p \in Procs |-> 1]
    /\ regRet = [p \in Procs |-> Nil]
    /\ regDone = [p \in Procs |-> FALSE]
    /\ regCalls = 0
    /\ nextInstance = 1
    /\ instancesOf = [n \in Names |-> {}]

\* database.go:474-479  KKDB(dbname) is called; the once-guarded debug setup
RegEnter(p, name) ==
    /\ regpc[p] = "idle"
    /\ regCalls < MaxRegCalls
    /\ regCalls' = regCalls + 1
    /\ KKDatabaseDebug' = DebugAfterOnce
    /\ debugOnceDone' = TRUE
    /\ regName' = [regName EXCEPT ![p] = name]
    /\ regRet' = [regRet EXCEPT ![p] = Nil]
    /\ regDone' = [regDone EXCEPT ![p] = FALSE]
    /\ regpc' = [regpc EXCEPT ![p] = "load"]
    /\ UNCHANGED <<debugEnv, KKDatabaseProfiles, KKDatabaseLocker, secretProfiles,
                   nextInstance, instancesOf>>
    /\ UNCHANGED otherThanRegistry

\* database.go:481-483  if r, f := KKDatabaseProfiles.Load(dbname); f && !KKDatabaseDebug { return r }
RegFastLoad(p) ==
    /\ regpc[p] = "load"
    /\ IF KKDatabaseProfiles[regName[p]] /= Nil /\ ~KKDatabaseDebug
       THEN /\ regRet' = [regRet EXCEPT ![p] = KKDatabaseProfiles[regName[p]]]
            /\ regDone' = [regDone EXCEPT ![p] = TRUE]
            /\ regpc' = [regpc EXCEPT ![p] = "idle"]
       ELSE /\ regpc' = [regpc EXCEPT ![p] = "profile"]
            /\ UNCHANGED <<regRet, regDone>>
    /\ UNCHANGED <<KKDatabaseDebug, debugEnv, debugOnceDone, KKDatabaseProfiles,
                   KKDatabaseLocker, secretProfiles, regName, regCalls, nextInstance,
                   instancesOf>>
    /\ UNCHANGED otherThanRegistry

\* database.go:485-488  profile := kksecret.DatabaseProfile(dbname); nil -> return nil
RegProfile(p) ==
    /\ regpc[p] = "profile"
    /\ IF regName[p] \in secretProfiles
       THEN /\ regpc' = [regpc EXCEPT ![p] = "lock"]
            /\ UNCHANGED <<regRet, regDone>>
       ELSE /\ regRet' = [regRet EXCEPT ![p] = Nil]
            /\ regDone' = [regDone EXCEPT ![p] = TRUE]
            /\ regpc' = [regpc EXCEPT ![p] = "idle"]
    /\ UNCHANGED <<KKDatabaseDebug, debugEnv, debugOnceDone, KKDatabaseProfiles,
                   KKDatabaseLocker, secretProfiles, regName, regCalls, nextInstance,
                   instancesOf>>
    /\ UNCHANGED otherThanRegistry

\* database.go:490-491  KKDatabaseLocker.Lock(); defer KKDatabaseLocker.Unlock()
RegLock(p) ==
    /\ regpc[p] = "lock"
    /\ MutexFree(KKDatabaseLocker)
    /\ KKDatabaseLocker' = p
    /\ regpc' = [regpc EXCEPT ![p] = "delete"]
    /\ UNCHANGED <<KKDatabaseDebug, debugEnv, debugOnceDone, KKDatabaseProfiles,
                   secretProfiles, regName, regRet, regDone, regCalls, nextInstance,
                   instancesOf>>
    /\ UNCHANGED otherThanRegistry

\* database.go:492-494  in debug mode the stored entry is deleted
RegDebugDelete(p) ==
    /\ regpc[p] = "delete"
    /\ KKDatabaseProfiles' = [KKDatabaseProfiles EXCEPT ![regName[p]] =
                                 EntryAfterDebugDelete(KKDatabaseDebug, @)]
    /\ regpc' = [regpc EXCEPT ![p] = "store"]
    /\ UNCHANGED <<KKDatabaseDebug, debugEnv, debugOnceDone, KKDatabaseLocker,
                   secretProfiles, regName, regRet, regDone, regCalls, nextInstance,
                   instancesOf>>
    /\ UNCHANGED otherThanRegistry

\* database.go:496-546  second Load under the lock: a missing entry is created and
\* stored, an existing one returned  (deferred Unlock)
RegLoadOrStore(p) ==
    /\ regpc[p] = "store"
    /\ IF RegistryMiss(KKDatabaseProfiles[regName[p]])
       THEN /\ KKDatabaseProfiles' = [KKDatabaseProfiles EXCEPT ![regName[p]] = nextInstance]
            /\ instancesOf' = [instancesOf EXCEPT ![regName[p]] = @ \cup {nextInstance}]
            /\ regRet' = [regRet EXCEPT ![p] = nextInstance]
            /\ nextInstance' = nextInstance + 1
       ELSE /\ regRet' = [regRet EXCEPT ![p] = KKDatabaseProfiles[regName[p]]]
            /\ UNCHANGED <<KKDatabaseProfiles, instancesOf, nextInstance>>
    /\ regDone' = [regDone EXCEPT ![p] = TRUE]
    /\ KKDatabaseLocker' = Nil
    /\ regpc' = [regpc EXCEPT ![p] = "idle"]
    /\ UNCHANGED <<KKDatabaseDebug, debugEnv, debugOnceDone, secretProfiles, regName,
                   regCalls>>
    /\ UNCHANGED otherThanRegistry

RegNext ==
    \E p \in Procs :
        \/ \E name \in Names : RegEnter(p, name)
        \/ RegFastLoad(p)
        \/ RegProfile(p)
        \/ RegLock(p)
        \/ RegDebugDelete(p)
        \/ RegLoadOrStore(p)

\* the registry not in use
RegQuiet ==
    /\ KKDatabaseDebug = FALSE
    /\ debugEnv = FALSE
    /\ debugOnceDone = FALSE
    /\ KKDatabaseProfiles = [n \in Names |-> Nil]
    /\ KKDatabaseLocker = Nil
    /\ secretProfiles = {}
    /\ regpc = [p \in Procs |-> "idle"]
    /\ regName = [p \in Procs |-> 1]
    /\ regRet = [p \in Procs |-> Nil]
    /\ regDone = [p \in Procs |-> FALSE]
    /\ regCalls = 0
    /\ nextInstance = 1
    /\ instancesOf = [n \in Names |-> {}]

(***************************************************************************)
(* MockRedisOp: SetSequentialResponses and findResponse                    *)
(* (docker/init/mysql/01-init.sql:118-126, 273-335), for the one command   *)
(* GET.  A mock built by NewMockRedisOp has no conditional rule, no static *)
(* response and no default error.                                          *)
(***************************************************************************)

\* the first argument of a command: two keys and the key spelled "*"
MockKeys == {"k1", "k2", "*"}

\* fmt.Sprintf("%s:*", cmd)
WildcardKey == "*"

MockResponses == {"r1", "r2"}

\* MockResponse{Data: nil, Error: nil}
NilMockResponse == "nil"

\* the sequences a test can register, the empty one included
ResponseSeqs == UNION {[1..n -> MockResponses] : n \in 0..MaxSeqLen}

\* 01-init.sql:291-293  if index < len(sequence)-1 { m.sequenceIndexes[key] = index + 1 }
NextExactIndex(index, len) == IF index < len - 1 THEN index + 1 ELSE index

\* 01-init.sql:303  m.sequenceIndexes[wildcardKey] = (index + 1) % len(sequence)
NextWildcardIndex(index, len) == (index + 1) % len

\* 01-init.sql:93-107  NewMockRedisOp: empty maps
MockInit ==
    /\ sequences = [k \in MockKeys |-> <<>>]
    /\ sequenceIndexes = [k \in MockKeys |-> 0]
    /\ served = [k \in MockKeys |-> 0]
    /\ mockResponse = [from |-> "none", data |-> NilMockResponse]
    /\ mockCalls = 0
    /\ mockSets = 0

\* 01-init.sql:120-126  m.sequences[key] = responses; m.sequenceIndexes[key] = 0
SetSequentialResponses(keyPattern, rs) ==
    /\ mockSets < MaxMockSets
    /\ mockSets' = mockSets + 1
    /\ sequences' = [sequences EXCEPT ![keyPattern] = rs]
    /\ sequenceIndexes' = [sequenceIndexes EXCEPT ![keyPattern] = 0]
    /\ served' = [served EXCEPT ![keyPattern] = 0]
    /\ UNCHANGED <<mockResponse, mockCalls>>
    /\ UNCHANGED otherThanMock

\* 01-init.sql:273-335  findResponse("GET", [key]): the sequence registered for the
\* key itself, else the wildcard sequence, else (nothing else being set) the nil
\* response.  Go slices are 0-based: sequence[index] is sequences[..][index + 1].
findResponse(key) ==
    /\ mockCalls < MaxMockCalls
    /\ mockCalls' = mockCalls + 1
    /\ IF Len(sequences[key]) > 0
       THEN /\ mockResponse' = [from |-> key,
                                 data |-> sequences[key][sequenceIndexes[key] + 1]]
            /\ sequenceIndexes' = [sequenceIndexes EXCEPT ![key] =
                                      NextExactIndex(@, Len(sequences[key]))]
            /\ served' = [served EXCEPT ![key] = @ + 1]
       ELSE IF Len(sequences[WildcardKey]) > 0
       THEN /\ mockResponse' = [from |-> WildcardKey,
                                 data |-> sequences[WildcardKey]
                                              [sequenceIndexes[WildcardKey] + 1]]
            /\ sequenceIndexes' = [sequenceIndexes EXCEPT ![WildcardKey] =
                                      NextWildcardIndex(@, Len(sequences[WildcardKey]))]
            /\ served' = [served EXCEPT ![WildcardKey] = @ + 1]
       ELSE /\ mockResponse' = [from |-> "none", data |-> NilMockResponse]
            /\ UNCHANGED <<sequenceIndexes, served>>
    /\ UNCHANGED <<sequences, mockSets>>
    /\ UNCHANGED otherThanMock

MockNext ==
    \/ \E keyPattern \in MockKeys, rs \in ResponseSeqs :
          SetSequentialResponses(keyPattern, rs)
    \/ \E key \in MockKeys : findResponse(key)

\* no mock in use
MockQuiet ==
    /\ sequences = [k \in MockKeys |-> <<>>]
    /\ sequenceIndexes = [k \in MockKeys |-> 0]
    /\ served = [k \in MockKeys |-> 0]
    /\ mockResponse = [from |-> "none", data |-> NilMockResponse]
    /\ mockCalls = 0
    /\ mockSets = 0

\* no metadata scan under way
MetaQuiet ==
    /\ catalog = <<>>
    /\ cursor = 0
    /\ mpc = "done"
    /\ columnMetadata = EmptyColumnMetadata
    /\ mapHeap = <<>>
    /\ metaEntries = <<>>

\* a CassandraOp as configureCassandraOp leaves it, with no call in progress
CassQuiet ==
    /\ createMode = "ok"
    /\ session = Nil
    /\ cassLock = Nil
    /\ sessClosed = {}
    /\ nextSess = 1
    /\ columnsMetadata = {}
    /\ columnMetaOnce = 1
    /\ nextOnce = 2
    /\ onceDone = {}
    /\ onceHeld = {}
    /\ caller = [p \in Callers |-> IdleCaller]
    /\ sessOps = 0
    /\ sessCreates = 0
    /\ extClosed = {}
    /\ metaRuns = 0

\* a KKDatabaseOp as KKDB leaves it, with no call in progress
DBQuiet ==
    /\ adapter = "mysql"
    /\ KKDBParamMaxIdleConn = 1
    /\ KKDBParamConnMaxLifetime = 1
    /\ dial = "ok"
    /\ db = Nil
    /\ opLock = Nil
    /\ dbpc = [p \in Procs |-> "idle"]
    /\ retry = [p \in Procs |-> 0]
    /\ conn = [p \in Procs |-> Nil]
    /\ res = [p \in Procs |-> Nil]
    /\ lastOp = [p \in Procs |-> "none"]
    /\ calls = 0
    /\ attempts = [p \in Procs |-> 0]
    /\ sleeps = [p \in Procs |-> 0]
    /\ connects = 0
    /\ nextRes = 1
    /\ configured = {}
    /\ dbClosed = {}


Init == DBInit /\ CassQuiet /\ PipeInit /\ MetaQuiet /\ ValueQuiet /\ RegQuiet /\ MockQuiet

Next == DBNext

Spec == Init /\ [][Next]_vars

InitCassandra == CassInit /\ DBQuiet /\ PipeInit /\ MetaQuiet /\ ValueQuiet /\ RegQuiet /\ MockQuiet

SpecCassandra == InitCassandra /\ [][CassNext]_vars

\* the operator used by one goroutine only: calls follow one another
SpecCassandraSolo == InitCassandra /\ [][CassStep(1)]_vars

InitPipeline == PipeInit /\ DBQuiet /\ CassQuiet /\ MetaQuiet /\ ValueQuiet /\ RegQuiet /\ MockQuiet

InitMetadata == MetaInit /\ DBQuiet /\ CassQuiet /\ PipeInit /\ ValueQuiet /\ RegQuiet /\ MockQuiet

InitValues == ValueInit /\ DBQuiet /\ CassQuiet /\ PipeInit /\ MetaQuiet /\ RegQuiet /\ MockQuiet

SpecValues == InitValues /\ [][ValueNext]_vars

InitEntity == EntityInit /\ DBQuiet /\ CassQuiet /\ PipeInit /\ MetaQuiet /\ RegQuiet /\ MockQuiet

SpecEntity == InitEntity /\ [][EntityNext]_vars

InitRegistry == RegInit /\ DBQuiet /\ CassQuiet /\ PipeInit /\ MetaQuiet /\ ValueQuiet /\ MockQuiet

SpecRegistry == InitRegistry /\ [][RegNext]_vars

InitMock ==
    MockInit /\ DBQuiet /\ CassQuiet /\ PipeInit /\ MetaQuiet /\ ValueQuiet /\ RegQuiet

SpecMock == InitMock /\ [][MockNext]_vars

\* A KKDatabaseOp and a CassandraOp of one process, each used by one goroutine.
\* The database operator is pooled, its adapter is supported and its gorm.Open
\* always fails, so each DB() call holds ke.opLock through a whole retry cycle.
InitOperatorPair ==
    /\ DBInit /\ ~PoolingDisabled /\ AdapterSupported(adapter) /\ dial = "fail"
    /\ CassInit /\ PipeInit /\ MetaQuiet /\ ValueQuiet /\ RegQuiet /\ MockQuiet

\* the steps of DB() on that operator
RetryCycleStep(p) ==
    \/ DBEnter(p)
    \/ DBFastCheck(p)
    \/ DBLock(p)
    \/ DBRecheck(p)
    \/ NewDBConnOpenErr(p)
    \/ DBAssign(p)

NextOperatorPair == RetryCycleStep(1) \/ CassStep(1)

SpecOperatorPair == InitOperatorPair /\ [][NextOperatorPair]_vars

SpecMetadata == InitMetadata /\ [][MetaNext]_vars

SpecPipeline == InitPipeline /\ [][PipeNext]_vars

\* The operator whose gorm.Open always fails.  With dial = "fail" no resource is
\* ever created, so NewDBConnOpenOk, NewDBConnConfigure and DBNew are never
\* enabled; the steps left are these.
InitDialFails == Init /\ dial = "fail"

NextDialFails ==
    \E p \in Procs :
        \/ DBEnter(p)
        \/ DBFastCheck(p)
        \/ DBLock(p)
        \/ DBRecheck(p)
        \/ NewDBConnUnsupported(p)
        \/ NewDBConnOpenErr(p)
        \/ DBReturnDirect(p)
        \/ DBAssign(p)
        \/ DBClose(p)

\* Go schedules every runnable goroutine and time.Sleep returns: the next step
\* of a started call is eventually taken once it stays possible.
SpecDialFails ==
    InitDialFails /\ [][NextDialFails]_vars /\ \A p \in Procs : WF_vars(DBRun(p))

(***************************************************************************)
(* Claims about KKDatabaseOp.                                              *)
(***************************************************************************)

Pooled == ~PoolingDisabled /\ AdapterSupported(adapter)

Returned(p) == lastOp[p] = "DB" /\ dbpc[p] = "idle"

\* C1: with pooling enabled and a connect that succeeds, any number of
\* concurrent DB() calls on a fresh operator invoke gorm.Open exactly once in
\* total, and every caller that has returned holds a handle on that one
\* cached resource.
C1_SingleConstruction ==
    (Pooled /\ dial = "ok") =>
        /\ connects <= 1
        /\ \A p \in Procs :
              Returned(p) => /\ connects = 1
                             /\ db /= Nil
                             /\ res[p] = db
                             /\ res[p] = 1

\* a caller that lost the race holds the lock after its re-check found the
\* winner's resource, while the winner has already returned a handle on it
C1_Witness ==
    /\ Pooled /\ dial = "ok"
    /\ \E p, q \in Procs :
          /\ p /= q
          /\ dbpc[p] = "new" /\ opLock = p /\ attempts[p] = 0
          /\ Returned(q) /\ res[q] = 1 /\ connects = 1

C5_Counts ==
    \A p \in Procs :
        /\ attempts[p] <= 5
        /\ sleeps[p] <= 4
        /\ (dial = "fail" /\ dbpc[p] \in {"open_direct", "open_locked"})
              => (sleeps[p] = attempts[p] /\ attempts[p] < 5)
        /\ (dial = "fail" /\ AdapterSupported(adapter) /\ Returned(p))
              => (attempts[p] = 5 /\ sleeps[p] = 4 /\ res[p] = Nil)

\* C5: when connect always fails on a supported adapter, one DB() call makes
\* exactly 5 connect attempts with one sleep between consecutive attempts
\* (4 sleeps, none after the last), returns nil, never makes a 6th attempt,
\* and every started call comes back.
C5_BoundedRetry ==
    /\ []C5_Counts
    /\ \A p \in Procs : (dbpc[p] /= "idle") ~> (dbpc[p] = "idle")

C5_Witness ==
    \E p \in Procs :
        /\ dial = "fail" /\ AdapterSupported(adapter)
        /\ Returned(p) /\ attempts[p] = 5 /\ sleeps[p] = 4 /\ res[p] = Nil

\* C6: a DB() call that gives up leaves ke.db nil, every construction starts
\* from retry 0 whatever happened before, so a call that returns nil on a
\* supported adapter has always used its own 5 attempts, and a later call
\* whose connect succeeds caches the resource and returns a handle on it.
C6_FreshBudget ==
    /\ [](\A p \in Procs :
            (AdapterSupported(adapter) /\ Returned(p) /\ res[p] = Nil) => attempts[p] = 5)
    /\ [][\A p \in Procs :
            /\ (dbpc[p] = "ret_locked" /\ conn[p] = Nil /\ dbpc'[p] = "idle")
                  => (db' = Nil /\ res'[p] = Nil)
            /\ (dbpc[p] \in {"idle", "recheck"} /\ dbpc'[p] \in {"open_direct", "open_locked"})
                  => (retry'[p] = 0 /\ attempts'[p] = 0)
            /\ (dbpc[p] = "ret_locked" /\ conn[p] /= Nil /\ dbpc'[p] /= dbpc[p])
                  => db' = conn[p]
            /\ (dbpc[p] = "new" /\ dbpc'[p] = "idle")
                  => (res'[p] = db /\ res'[p] /= Nil)
       ]_vars

\* q gave up after 5 attempts (ke.db was nil throughout, q held the lock) and
\* p, calling later, constructed the resource that is now cached
C6_Witness ==
    /\ ~PoolingDisabled
    /\ \E p, q \in Procs :
          /\ Returned(q) /\ res[q] = Nil /\ attempts[q] = 5
          /\ Returned(p) /\ res[p] /= Nil /\ res[p] = db /\ attempts[p] >= 1

(***************************************************************************)
(* Claims about CassandraOp.                                               *)
(***************************************************************************)

SessionReturned(p) == caller[p].pc = "idle" /\ caller[p].done = "Session"

\* C2: with a succeeding CreateSession and no session closed so far, concurrent
\* Session() calls on an operator without a cached session invoke
\* CreateSession exactly once, and all callers that returned hold the same
\* session.
C2_SingleWinner ==
    (createMode = "ok" /\ sessClosed = {}) =>
        /\ sessCreates <= 1
        /\ \A p, q \in Callers :
              (SessionReturned(p) /\ SessionReturned(q)) => caller[p].ret = caller[q].ret

\* C7: a Session() call whose check found the cached session closed does not
\* hand that session back: it constructs a session, caches it and returns it
\* (or returns nil when CreateSession fails); and no Session() call returns a
\* session that was closed when the call made its check.
C7_StaleReconstruct ==
    /\ [](\A p \in Callers :
            SessionReturned(p) =>
                /\ caller[p].ret \notin caller[p].closedAtCheck
                /\ (caller[p].checked \in caller[p].closedAtCheck) =>
                      /\ caller[p].ret /= caller[p].checked
                      /\ caller[p].ret = caller[p].s
                      /\ (createMode = "ok" => caller[p].ret /= Nil))
    /\ [][\A p \in Callers :
            (caller[p].pc = "s_assign" /\ caller'[p].pc = "idle") =>
                /\ session' = caller'[p].ret
                /\ session' /= Nil
                /\ session' \notin sessClosed'
       ]_vars

\* a holder closed the cached session directly; the next Session() found it
\* closed and now holds the open session it constructed and cached
C7_Witness ==
    \E p \in Callers :
        /\ SessionReturned(p)
        /\ caller[p].checked \in extClosed
        /\ caller[p].checked \in caller[p].closedAtCheck
        /\ caller[p].ret = session /\ session /= Nil /\ session \notin sessClosed
        /\ caller[p].ret /= caller[p].checked

(***************************************************************************)
(* Claims about RedisOp.Pipeline.                                          *)
(***************************************************************************)

PipelineReturned == ppc = "idle" /\ outcome \in {"read", "send_failed", "flush_failed"}

\* C3: when all Sends and the Flush succeed, Receive is called exactly once
\* per command whatever errors it returns; an error returned for command i is
\* responses[i].Error and nothing else, and every other responses[j] is built
\* from the j-th reply.
C3_Isolation ==
    (ppc = "idle" /\ outcome = "read") =>
        /\ recvCalls = Len(cmds)
        /\ \A j \in 1..Len(cmds) :
              /\ responses[j].present
              /\ (replies[j].kind = "error") =>
                    (responses[j].err = ReceiveError(j) /\ responses[j].data = NoData)
              /\ (replies[j].kind = "nil") =>
                    (responses[j].err = RedisNotFound /\ responses[j].data = NoData)
              /\ (replies[j].kind = "value") =>
                    (responses[j].err = NoError /\ responses[j].data.pos = j)

\* an error reply at i is followed by a value reply at j, and both are in place
C3_Witness ==
    /\ ppc = "idle" /\ outcome = "read"
    /\ \E i, j \in 1..Len(cmds) :
          /\ i < j
          /\ replies[i].kind = "error" /\ responses[i].err = ReceiveError(i)
          /\ replies[j].kind = "value" /\ responses[j].data = [pos |-> j, cmd |-> cmds[j]]

\* C4: commands are Sent in input order, and when Sends and Flush succeed the
\* call returns exactly n responses where responses[i] is the outcome of the
\* i-th Receive, the reply to cmds[i].
C4_Order ==
    /\ Len(wire) <= Len(cmds)
    /\ \A k \in 1..Len(wire) : wire[k] = cmds[k]
    /\ (ppc = "idle" /\ outcome = "read") =>
          /\ Len(responses) = Len(cmds)
          /\ wire = cmds
          /\ \A i \in 1..Len(cmds) :
                /\ responses[i].present
                /\ responses[i].err.kind \in {"none", "not_found", "reply_error"}
                /\ (responses[i].err.kind = "none") =>
                      responses[i].data = [pos |-> i, cmd |-> cmds[i]]
                /\ (responses[i].err.kind = "reply_error") => responses[i].err.at = i

\* a batch of different commands, all answered with values, each in its own slot
C4_Witness ==
    /\ ppc = "idle" /\ outcome = "read"
    /\ Len(cmds) >= 2 /\ cmds[1] /= cmds[2]
    /\ \A i \in 1..Len(cmds) : responses[i].data = [pos |-> i, cmd |-> cmds[i]]

\* C8: when Send fails for the command at index i, every index j >= i holds a
\* send-error envelope, nothing after i was Sent, and neither Flush nor
\* Receive was called.
C8_SendFailure ==
    (outcome = "send_failed") =>
        /\ sendCalls = idx
        /\ Len(wire) = idx - 1
        /\ flushCalls = 0
        /\ recvCalls = 0
        /\ \A j \in idx..Len(cmds) :
              /\ responses[j].present
              /\ responses[j].err.kind = "send_failed"
              /\ responses[j].data = NoData

\* Send failed in the middle of a batch and the call has returned
C8_Witness ==
    /\ ppc = "idle" /\ outcome = "send_failed"
    /\ idx >= 2 /\ idx < Len(cmds)
    /\ responses[idx].err.kind = "send_failed"
    /\ responses[Len(cmds)].err.kind = "send_failed"

\* C9: a Pipeline call with n >= 1 commands returns, on every path, a list of
\* exactly n envelopes none of which is nil.
C9_AllPresent ==
    PipelineReturned =>
        /\ Len(responses) = Len(cmds)
        /\ \A i \in 1..Len(cmds) : responses[i].present

\* C10: when every Send succeeds and Flush fails, all n commands hold the
\* flush-error envelope and Receive is never called.
C10_FlushFailure ==
    (outcome = "flush_failed") =>
        /\ sendCalls = Len(cmds)
        /\ flushCalls = 1
        /\ recvCalls = 0
        /\ (ppc = "idle") => (\A j \in 1..Len(cmds) : responses[j] = FlushErrorResponse)

\* a batch of two or more commands whose Flush failed has returned
C10_Witness ==
    /\ ppc = "idle" /\ outcome = "flush_failed"
    /\ Len(cmds) >= 2
    /\ \A j \in 1..Len(cmds) : responses[j].err.kind = "flush_failed"

(***************************************************************************)
(* Claims about RedisOp._Do, the envelopes and the released connection.    *)
(***************************************************************************)

DoReturned == ppc = "idle" /\ outcome = "do"

\* C11: Pipeline called with zero commands returns nil and makes no driver
\* call: no connection is taken from the pool and none of Send, Flush,
\* Receive or Close is called.
C11_EmptyNoDriverCall ==
    (cmds = <<>> /\ outcome /= "none") =>
        /\ outcome = "empty"
        /\ ppc = "idle"
        /\ connGets = 0
        /\ sendCalls = 0 /\ flushCalls = 0 /\ recvCalls = 0
        /\ connCloses = 0

\* an empty batch was passed after a batch that did use the connection
C11_Witness ==
    /\ outcome = "empty" /\ cmds = <<>>
    /\ pipelines = 2

\* C12: the connection Pipeline or _Do acquired is closed exactly once before
\* the call returns, on every path; it is not closed while the call runs.
C12_ConnReleased ==
    /\ (ppc = "idle" /\ outcome \notin {"none", "empty"}) => (connGets = 1 /\ connCloses = 1)
    /\ (ppc /= "idle") => (connGets = 1 /\ connCloses = 0)

\* a Pipeline call that stopped at a failed Send has returned
C12_Witness ==
    /\ ppc = "idle" /\ outcome = "send_failed"
    /\ sendCalls >= 2
    /\ connGets = 1 /\ connCloses = 1

\* C13: a GET on an absent key (nil reply, no error) yields an envelope with
\* RecordNotFound() true and GetString() = "".
C13_AbsentKey ==
    (DoReturned /\ cmds = <<"GET">> /\ doReply.kind = "nil") =>
        /\ RecordNotFound(doResponse)
        /\ GetString(doResponse.data) = ""

\* C14: in _Do and in Pipeline a nil reply without error becomes the
\* RedisNotFound sentinel, and an error from Do or Receive is that command's
\* Error and is not reported as not-found.
C14_NotFoundVsError ==
    /\ DoReturned =>
          /\ (doReply.kind = "nil") => (doResponse.err = RedisNotFound)
          /\ (doReply.kind = "error") =>
                (doResponse.err = DoError /\ ~RecordNotFound(doResponse))
    /\ (ppc = "idle" /\ outcome = "read") =>
          \A j \in 1..Len(cmds) :
              /\ (replies[j].kind = "nil") => (responses[j].err = RedisNotFound)
              /\ (replies[j].kind = "error") =>
                    (responses[j].err = ReceiveError(j) /\ ~RecordNotFound(responses[j]))

\* conn.Do returned an error and _Do has returned
C14_Witness ==
    /\ DoReturned
    /\ doReply.kind = "error"
    /\ doResponse.err = DoError

\* C15: every envelope built by _Do or by the Receive phase of Pipeline has
\* exactly one of value and error: Error is nil iff data is non-nil.
C15_ExactlyOne ==
    /\ doResponse.present => ((doResponse.err = NoError) <=> (doResponse.data /= NilValue))
    /\ (outcome \in {"running", "read"}) =>
          \A j \in 1..Len(responses) :
              responses[j].present =>
                  ((responses[j].err = NoError) <=> (responses[j].data /= NoData))

\* a batch was read in which one command got a value and another a nil reply
C15_Witness ==
    /\ ppc = "idle" /\ outcome = "read"
    /\ \E i, j \in 1..Len(responses) :
          /\ responses[i].err = NoError /\ responses[i].data /= NoData
          /\ responses[j].err = RedisNotFound /\ responses[j].data = NoData

(***************************************************************************)
(* Claims about columnMetadataInitialize.                                  *)
(***************************************************************************)

\* the columns the stored entry of table t holds
EntryColumns(t) == mapHeap[metaEntries[t].Columns]

CatalogTables == {catalog[i].table : i \in 1..Len(catalog)}

RowsOfTable(t) == {catalog[i] : i \in {j \in 1..Len(catalog) : catalog[j].table = t}}

\* C16: for catalog rows ordered by (table, column) the scan leaves exactly
\* one entry per distinct table, keyed by the table, and the entry holds
\* exactly the columns of that table's rows with their kind and type.
C16_Grouping ==
    (mpc = "done") =>
        /\ DOMAIN metaEntries = CatalogTables
        /\ \A t \in DOMAIN metaEntries :
              /\ metaEntries[t].tableName = t
              /\ EntryColumns(t) = {ColumnOfRow(r) : r \in RowsOfTable(t)}

\* two tables of two columns each were scanned to the end
C16_Witness ==
    /\ mpc = "done"
    /\ Len(catalog) = 4
    /\ Cardinality(CatalogTables) = 2
    /\ \A t \in DOMAIN metaEntries : Cardinality(EntryColumns(t)) = 2

(***************************************************************************)
(* Claims about the metadata guard and CassandraOp.Close().                *)
(***************************************************************************)

LiveCachedSession == session /= Nil /\ session \notin sessClosed

\* C17: the metadata extraction runs exactly once per lifetime of the cached
\* session, a lifetime ending when that session is closed by Close() or by a
\* holder: whenever a live session is cached, exactly one extraction has run
\* since the previous cached session was closed.
C17_OncePerLifetime == LiveCachedSession => metaRuns = 1

CloseFinishes(p) == caller[p].pc = "k_once" /\ caller'[p].pc = "idle"

CloseSkips(p) == caller[p].pc = "k_nil" /\ caller'[p].pc = "idle"

\* C20: with calls made one after another, a Close() that found a live cached
\* session leaves that session closed, the cached pointer nil, the metadata
\* map empty and the once guard fresh; a Close() that found no session changes
\* nothing; no Close() fails, and none returns with a live session still cached.
C20_CloseResets ==
    /\ [](\A p \in Callers :
            /\ caller[p].pc /= "panic"
            /\ (caller[p].pc = "idle" /\ caller[p].done = "Close") => ~LiveCachedSession)
    /\ [][\A p \in Callers :
            /\ CloseFinishes(p) =>
                  /\ caller[p].s \in sessClosed'
                  /\ session' = Nil
                  /\ columnsMetadata' = {}
                  /\ columnMetaOnce' \notin onceDone' \cup onceHeld'
            /\ CloseSkips(p) =>
                  /\ session' = Nil
                  /\ UNCHANGED <<sessClosed, columnsMetadata, columnMetaOnce, onceDone, onceHeld>>
       ]_vars

\* Close() has returned after closing a session whose metadata had been
\* extracted: nothing is cached, the map is empty and the guard is a new one
C20_Witness ==
    /\ caller[1].pc = "idle" /\ caller[1].done = "Close"
    /\ sessClosed /= {}
    /\ session = Nil
    /\ columnsMetadata = {}
    /\ onceDone /= {} /\ columnMetaOnce \notin onceDone

(***************************************************************************)
(* Claims about the escape hatch of DB() and about KKDatabaseOp.Close().   *)
(***************************************************************************)

EscapeHatch == KKDBParamMaxIdleConn <= 0 \/ KKDBParamConnMaxLifetime <= 0

DBReturns(p) == dbpc[p] /= "idle" /\ dbpc'[p] = "idle"

\* C18: with MaxIdleConn <= 0 or ConnMaxLifetime <= 0 the cached pointer is
\* never written, and every DB() call returns what its own newDBConn
\* constructed: a resource no earlier call returned (nil only when the connect
\* did not succeed).
C18_EscapeHatch ==
    /\ [](EscapeHatch => db = Nil)
    /\ [][\A p \in Procs :
            (EscapeHatch /\ DBReturns(p)) =>
                /\ dbpc[p] = "ret_direct"
                /\ res'[p] = conn[p]
                /\ AdapterSupported(adapter) => attempts[p] >= 1
                /\ (AdapterSupported(adapter) /\ dial = "ok") => res'[p] /= Nil
                /\ (res'[p] /= Nil) => (\A q \in Procs : res'[p] /= res[q])
       ]_vars

\* with pooling bypassed two DB() calls have returned two distinct resources
\* and nothing is cached
C18_Witness ==
    /\ EscapeHatch
    /\ db = Nil
    /\ \E p, q \in Procs :
          /\ p /= q
          /\ Returned(p) /\ Returned(q)
          /\ res[p] /= Nil /\ res[q] /= Nil
          /\ res[p] /= res[q]

\* C19: once Close() has closed the cached resource the cached pointer is
\* absent, so that the next DB() constructs a new resource: the operator never
\* caches a resource Close() has closed.
C19_CloseResets == (db /= Nil) => (db \notin dbClosed)

(***************************************************************************)
(* Claims about the sessions a CassandraOp owns.                           *)
(***************************************************************************)

\* p's last Session() call constructed the session it returned
BuiltByLastSession(p) ==
    SessionReturned(p) /\ caller[p].ret /= Nil /\ caller[p].ret = caller[p].s

\* C21: every session a Session() call has constructed and returned is the
\* operator's cached session or has been closed: no live session is left
\* outside the cache.
C21_NoLeakedSession ==
    \A p \in Callers :
        BuiltByLastSession(p) => (caller[p].ret = session \/ caller[p].ret \in sessClosed)

(***************************************************************************)
(* Claims about construction under the operator's lock.                    *)
(***************************************************************************)

\* the goroutines inside the locked construction of DB(): database.go:452
ConstructingLocked == {p \in Procs : dbpc[p] \in {"open_locked", "conf_locked", "ret_locked"}}

\* C22: on a pooled operator at most one goroutine is constructing the
\* resource at any moment, and no step reassigns the cached pointer once it
\* holds a resource.
C22_SerializedConstruction ==
    /\ [](~PoolingDisabled => Cardinality(ConstructingLocked) <= 1)
    /\ [][db /= Nil => db' = db]_vars

\* one goroutine has opened a resource under the lock while another, which
\* also saw no cached resource, waits for the lock
C22_Witness ==
    /\ ~PoolingDisabled
    /\ \E p, q \in Procs :
          /\ p /= q
          /\ dbpc[p] = "conf_locked" /\ opLock = p /\ conn[p] /= Nil
          /\ dbpc[q] = "lock"

\* C23: on an operator whose adapter is anything other than "mysql", the
\* empty string included, no DB() call makes a connect attempt or sleeps,
\* every DB() call returns nil, and the operator caches nothing.
C23_UnsupportedAdapter ==
    adapter /= "mysql" =>
        /\ connects = 0
        /\ db = Nil
        /\ nextRes = 1
        /\ \A p \in Procs :
              /\ attempts[p] = 0
              /\ sleeps[p] = 0
              /\ Returned(p) => res[p] = Nil

\* with pooling enabled and an empty adapter, one goroutine has returned nil
\* through the locked path and another call is under way
C23_Witness ==
    /\ adapter = "" /\ ~PoolingDisabled
    /\ \E p, q \in Procs :
          /\ p /= q
          /\ Returned(p) /\ res[p] = Nil
          /\ dbpc[q] = "ret_locked" /\ conn[q] = Nil

\* C29: the pool-sizing parameters (max open, max idle, max lifetime, max
\* idle time) are set before a resource is cached or handed out: the cached
\* resource and every resource a DB() call has returned are configured.
C29_ConfiguredBeforeVisible ==
    /\ db /= Nil => db \in configured
    /\ \A p \in Procs : (Returned(p) /\ res[p] /= Nil) => res[p] \in configured

\* a resource is cached and a DB() call has returned a handle on it
C29_Witness ==
    /\ db /= Nil /\ db \in configured
    /\ \E p \in Procs : Returned(p) /\ res[p] = db

\* p's Session() call comes back from a CreateSession that failed
SessionFails(p) ==
    /\ caller[p].op = "Session" /\ caller[p].pc = "create"
    /\ caller'[p].pc = "idle"

\* p's Session() call returns in this step
SessionReturns(p) ==
    /\ caller[p].op = "Session" /\ caller[p].pc /= "idle"
    /\ caller'[p].pc = "idle"

\* C24: a Session() call whose CreateSession fails returns nil, leaves no
\* cached session and releases the lock; while CreateSession keeps failing
\* nothing is cached and every Session() call attempts a construction.
C24_FailedSession ==
    /\ [][\A p \in Callers :
            SessionFails(p) => /\ caller'[p].ret = Nil
                               /\ session' = Nil
                               /\ cassLock' = Nil]_vars
    /\ [](createMode = "fail" => session = Nil)
    /\ [][\A p \in Callers :
            (createMode = "fail" /\ SessionReturns(p))
                => (sessCreates' = sessCreates + 1 /\ caller'[p].ret = Nil)]_vars

\* CreateSession always fails, two Session() calls have attempted a
\* construction, and the last one has returned nil
C24_Witness ==
    /\ createMode = "fail" /\ sessCreates >= 2
    /\ \E p \in Callers : SessionReturned(p) /\ caller[p].ret = Nil

(***************************************************************************)
(* Claims about the value methods.                                         *)
(***************************************************************************)

\* C25: Attempt(q) returns true iff q.Attempts() < MaxRetryAttempt, and it
\* sleeps the flat 100 ms iff it returns true; with MaxRetryAttempt = 3,
\* 2 attempts give true and 3 attempts give false.
C25_Attempt ==
    lastCall.fn = "Attempt" =>
        /\ lastCall.max = MaxRetryAttempt
        /\ lastCall.ok <=> (lastCall.n < MaxRetryAttempt)
        /\ lastCall.slept = (IF lastCall.ok THEN 100 ELSE 0)
        /\ (MaxRetryAttempt = 3 /\ lastCall.n = 2) => lastCall.ok
        /\ (MaxRetryAttempt = 3 /\ lastCall.n = 3) => ~lastCall.ok

\* the policy with ceiling 3 granted a retry to a query with 2 attempts
C25_Witness ==
    /\ lastCall.fn = "Attempt" /\ MaxRetryAttempt = 3
    /\ lastCall.n = 2 /\ lastCall.ok /\ lastCall.slept = 100

\* C26: GetRetryType(err) is RetryNextHost for every error, nil included.
C26_RetryNextHost ==
    lastCall.fn = "GetRetryType" => lastCall.retryType = "RetryNextHost"

\* GetRetryType was called with a nil error
C26_Witness ==
    lastCall.fn = "GetRetryType" /\ lastCall.err = NoError

\* names of the columns of a Columns map that have the kind
NamesOfKind(m, kind) == {c.Name : c \in {x \in m : x.Kind = kind}}

\* the elements of a sequence
Elements(seq) == {seq[i] : i \in 1..Len(seq)}

\* a call of the method returns in this step
ValueCallReturns(fn) == lastCall' /= lastCall /\ lastCall'.fn = fn

\* C27: PartitionKeys() returns exactly the names of the columns of kind
\* "partition_key" and ClusteringKeys() exactly those of kind "clustering",
\* each name once, as Columns stands when the call is made.
C27_KeysByKind ==
    [][/\ ValueCallReturns("PartitionKeys") =>
             /\ Elements(lastCall'.keys) = NamesOfKind(tableMetadata.Columns, "partition_key")
             /\ Len(lastCall'.keys) = Cardinality(NamesOfKind(tableMetadata.Columns, "partition_key"))
       /\ ValueCallReturns("ClusteringKeys") =>
             /\ Elements(lastCall'.keys) = NamesOfKind(tableMetadata.Columns, "clustering")
             /\ Len(lastCall'.keys) = Cardinality(NamesOfKind(tableMetadata.Columns, "clustering"))]_vars

\* PartitionKeys() returned the one partition key of a table that also has a
\* clustering column
C27_Witness ==
    /\ lastCall.fn = "PartitionKeys" /\ Len(lastCall.keys) = 1
    /\ Elements(lastCall.keys) = NamesOfKind(tableMetadata.Columns, "partition_key")
    /\ \E c \in tableMetadata.Columns : c.Kind = "clustering"

\* C28: RecordNotFound() of either response type is true iff the Error is the
\* RedisNotFound sentinel itself.
C28_SentinelIdentity ==
    lastCall.fn \in {"RedisResponse.RecordNotFound", "KKRedisOpResponse.RecordNotFound"} =>
        (lastCall.ok <=> lastCall.err = RedisNotFound)

(***************************************************************************)
(* Claims about operators side by side.                                    *)
(***************************************************************************)

\* the goroutine is about to take its operator's mutex
AtSessionGuard(p) == caller[p].pc \in {"s_lock", "k_lock"}

\* C30: each operator has its own guard.  A step of one operator leaves the
\* other operator's guard and cached resource as they are, and a goroutine
\* waiting for its operator's mutex goes on as soon as that mutex is free,
\* whoever holds the other operator's mutex, a retry cycle included.
C30_PrivateGuards ==
    /\ [][/\ dbVars' /= dbVars => cassVars' = cassVars
          /\ cassVars' /= cassVars => dbVars' = dbVars]_vars
    /\ [](\A p \in Callers : (AtSessionGuard(p) /\ cassLock = Nil) => ENABLED CassStep(p))
    /\ [](\A p \in Procs : (dbpc[p] = "lock" /\ opLock = Nil) => ENABLED DBLock(p))

\* the database goroutine sleeps inside its retry cycle holding ke.opLock
\* while the Cassandra goroutine has taken c.opLock
C30_Witness ==
    /\ opLock = 1 /\ dbpc[1] = "open_locked" /\ sleeps[1] >= 2
    /\ cassLock = 1 /\ caller[1].pc = "create"

(***************************************************************************)
(* Claims about CassandraOp.Exec and concurrent Close().                   *)
(***************************************************************************)

\* p's Exec() call returns in this step
ExecReturns(p) ==
    /\ caller[p].op = "Exec" /\ caller[p].pc /= "idle"
    /\ caller'[p].pc = "idle"

\* p takes a step of an Exec() call
ExecSteps(p) == caller'[p].op = "Exec" /\ caller'[p] /= caller[p]

\* C32: Exec(f) calls f exactly once when the session is created and not at
\* all when creation fails, in which case it returns the error; the session
\* it created is closed when it returns; no step of Exec changes the
\* operator's cached session pointer.
C32_Exec ==
    [][\A p \in Callers :
         /\ ExecSteps(p) => session' = session
         /\ ExecReturns(p) =>
               IF caller[p].s = Nil
               THEN /\ caller'[p].done = "ExecErr"
                    /\ caller[p].fcalls = 0
                    /\ caller[p].pc = "create"
               ELSE /\ caller'[p].done = "Exec"
                    /\ caller[p].fcalls = 1
                    /\ caller[p].s \in sessClosed'
                    /\ caller[p].s /= session]_vars

\* an Exec() has returned after closing its own session while the session
\* cached by an earlier Session() is still cached and open
C32_Witness ==
    /\ LiveCachedSession
    /\ \E p \in Callers : caller[p].pc = "idle" /\ caller[p].done = "Exec"
    /\ \E t \in sessClosed : t /= session

\* C34: under any interleaving of Close() calls with one another and with
\* Session() calls, no Close() runs c.session.Close() with c.session nil.
C34_CloseNeverOnNil ==
    [][\A p \in Callers : caller[p].pc = "k_close" => caller'[p].pc /= "panic"]_vars

\* C35: a Session() call whose CreateSession fails does not replace a live
\* cached session by nil.
C35_FailureKeepsCache ==
    [][\A p \in Callers : SessionFails(p) => ~LiveCachedSession]_vars

\* NewSession() hands p a live session in this step (:123)
NewSessionReturns(p) ==
    /\ caller[p].pc \in {"once_load", "once_lock", "meta"}
    /\ caller'[p].pc \in {"s_assign", "x_f"}

\* C36: whenever NewSession() returns a live session, ColumnsMetadata() holds
\* the entry of every table of the catalog.
C36_MetadataVisible ==
    [][\A p \in Callers : NewSessionReturns(p) => columnsMetadata' = Tables]_vars

(***************************************************************************)
(* Claims about the accumulator of columnMetadataInitialize.               *)
(***************************************************************************)

\* the columns of the rows scanned so far that belong to table t
ScannedColumnsOf(t) ==
    {ColumnOfRow(catalog[i]) : i \in {j \in 1..cursor : catalog[j].table = t}}

\* the scan starts a new accumulator, with a new Columns map, in this step
FreshAccumulator == Len(mapHeap') = Len(mapHeap) + 1

\* C38: once a row has been scanned the accumulator is that of the last
\* scanned row's table and holds exactly the columns scanned for that table,
\* none of another table; a row starts a fresh accumulator exactly when the
\* accumulator is empty or the row's table is not the accumulator's.
C38_OneTableAtATime ==
    /\ [](cursor > 0 =>
            /\ columnMetadata.tableName = catalog[cursor].table
            /\ mapHeap[columnMetadata.Columns] = ScannedColumnsOf(catalog[cursor].table))
    /\ [][cursor' = cursor + 1 =>
            (FreshAccumulator <=> (\/ columnMetadata.tableName = NoTable
                                   \/ catalog[cursor + 1].table /= columnMetadata.tableName))]_vars

\* the scan is in the second table, whose two columns are in the accumulator,
\* after a first table of two columns
C38_Witness ==
    /\ cursor = 4 /\ Len(mapHeap) = 2
    /\ Cardinality(mapHeap[columnMetadata.Columns]) = 2
    /\ columnMetadata.tableName = 2

(***************************************************************************)
(* Claims about RedisResponseEntity.                                       *)
(***************************************************************************)

\* the decimal digits of a natural number, most significant first
RECURSIVE DecimalDigits(_)
DecimalDigits(v) ==
    LET d == CHOOSE c \in DOMAIN DigitValue \cup {"3", "4", "5", "6", "7", "8"} :
                 c = ToString(v % 10)
    IN  IF v < 10 THEN <<d>> ELSE Append(DecimalDigits(v \div 10), d)

\* the base-10 text of an integer, as strconv.FormatInt writes it
Decimal(v) == IF v < 0 THEN <<"-">> \o DecimalDigits(0 - v) ELSE DecimalDigits(v)

\* the integers whose text fits MaxBytes characters
SmallInts == {v \in -99..999 : Len(Decimal(v)) <= MaxBytes}

\* C33: GetInt64() returns an int64 reply unchanged, the number a byte-string
\* reply spells in base 10, 0 for a byte string that spells no number, and 0
\* for every other reply shape.
C33_GetInt64 ==
    lastCall.fn = "GetInt64" =>
        /\ entity.type = "int64" => lastCall.n = entity.n
        /\ entity.type \notin {"int64", "bytes"} => lastCall.n = 0
        /\ entity.type = "bytes" =>
              /\ \A v \in SmallInts : entity.raw = Decimal(v) => lastCall.n = v
              /\ (\E i \in 1..Len(entity.raw) : entity.raw[i] \in {"a", " ", "_", "."})
                    => lastCall.n = 0
              /\ entity.raw \in {<<>>, <<"-">>, <<"+">>} => lastCall.n = 0

\* GetInt64() parsed the byte string "-9"
C33_Witness ==
    /\ lastCall.fn = "GetInt64" /\ entity.type = "bytes"
    /\ entity.raw = <<"-", "9">> /\ lastCall.n = 0 - 9


\* a KKDB call of goroutine p returns in this step
RegistryReturns(p) == ~regDone[p] /\ regDone'[p]

\* every instance the registry has created
AllInstances == UNION {instancesOf[n] : n \in Names}

\* C31: with the debug flag off, whatever the interleaving of concurrent calls,
\* at most one instance is ever created for a name, it is the stored one, and
\* every completed call for a name with a profile returned that instance.
C31_OneInstancePerName ==
    (~KKDatabaseDebug /\ ~debugEnv) =>
        /\ \A n \in Names :
              /\ Cardinality(instancesOf[n]) <= 1
              /\ instancesOf[n] /= {} => instancesOf[n] = {KKDatabaseProfiles[n]}
        /\ \A p \in Procs :
              (regDone[p] /\ regName[p] \in secretProfiles) =>
                  /\ regRet[p] /= Nil
                  /\ regRet[p] = KKDatabaseProfiles[regName[p]]
                  /\ instancesOf[regName[p]] = {regRet[p]}

C31_Witness ==
    /\ ~KKDatabaseDebug /\ ~debugEnv
    /\ \E p, q \in Procs :
          /\ p /= q
          /\ regDone[p] /\ regDone[q]
          /\ regName[p] = regName[q]
          /\ regName[p] \in secretProfiles
          /\ regRet[p] = regRet[q]
          /\ regRet[p] /= Nil
          /\ regCalls = MaxRegCalls

\* C37: with the debug flag on, a call for a name with a profile returns an
\* instance that did not exist before the call and that is now the entry stored
\* for the name (the previous entry is gone), so completed calls for one name
\* hold pairwise distinct instances.
C37_DebugBypassesCache ==
    /\ [](KKDatabaseDebug =>
            \A p, q \in Procs :
                (p /= q /\ regDone[p] /\ regDone[q] /\ regName[p] = regName[q]
                    /\ regName[p] \in secretProfiles) => regRet[p] /= regRet[q])
    /\ [][\A p \in Procs :
            (KKDatabaseDebug /\ RegistryReturns(p) /\ regName[p] \in secretProfiles) =>
                /\ regRet'[p] /= Nil
                /\ regRet'[p] \notin AllInstances
                /\ regRet'[p] \notin {KKDatabaseProfiles[n] : n \in Names}
                /\ KKDatabaseProfiles'[regName[p]] = regRet'[p]
                /\ \A n \in Names \ {regName[p]} :
                      KKDatabaseProfiles'[n] = KKDatabaseProfiles[n]]_vars

C37_Witness ==
    /\ KKDatabaseDebug
    /\ \E n \in secretProfiles :
          /\ Cardinality(instancesOf[n]) >= 2
          /\ KKDatabaseProfiles[n] \in instancesOf[n]
          /\ \E p \in Procs : regDone[p] /\ regName[p] = n /\ regRet[p] = KKDatabaseProfiles[n]


Min(a, b) == IF a <= b THEN a ELSE b

\* C39: the k-th call answered from a registered sequence rs returns
\* rs[min(k, len(rs)) - 1] (0-based): in order, then the last response for ever,
\* whether the sequence was registered for the key itself or for "*".
C39_SequentialResponses ==
    [][(mockCalls' = mockCalls + 1 /\ mockResponse'.from /= "none") =>
          LET pattern == mockResponse'.from
              rs == sequences[pattern]
          IN  mockResponse'.data = rs[Min(served'[pattern], Len(rs))]]_vars

====
